---- MODULE Spec2Model ----
(***************************************************************************)
(* Session engine of the Python BAP client: BAPClient (client.py) on top   *)
(* of WebSocketTransport (transport.py).  One asyncio event loop runs the  *)
(* receive task, the timers and the coroutines of the application; every   *)
(* action below is the code that runs between two suspension points.       *)
(***************************************************************************)
EXTENDS Integers, Sequences, FiniteSets, TLC

\* ------------------------------------------------------------------ bounds
MaxCalls == 3        \* _request invocations in one behaviour
MaxLoops == 2        \* receive loops started in one behaviour
MaxAttempts == 3     \* largest max_reconnect_attempts a transport is built with
MaxTries == 4        \* connect attempts one reconnect loop is followed through
MaxHandlers == 2     \* handlers registered on one client

\* ------------------------------------------------- program constants
Timeout == -32016
ServerError == -32000
InvalidRequest == -32600
ParseError == -32700
MethodNotFound == -32601
InvalidParams == -32602
InternalError == -32603
NotInitialized == -32001
AlreadyInitialized == -32002
BrowserNotLaunched == -32010
PageNotFound == -32011
ElementNotFound == -32012
ElementNotVisible == -32013
ElementNotEnabled == -32014
NavigationFailed == -32015
TargetClosed == -32017
ExecutionContextDestroyed == -32018
SelectorAmbiguous == -32020
ActionFailed == -32021
InterceptedRequest == -32022
ContextNotFound == -32023
ResourceLimitExceeded == -32024
ApprovalDenied == -32030
ApprovalTimeout == -32031
ApprovalRequired == -32032
FrameNotFound == -32040
DomainNotAllowed == -32041
StreamNotFound == -32050
StreamCancelled == -32051
ClientMajor == 0
ClientMinor == 2

CallIds == 1..MaxCalls
LoopIds == 1..MaxLoops

\* reconnect_delay a transport is built with, in seconds
Delays == {1, 2}

\* The public method the application calls: create_page, a _request whose
\* result the client keeps (the new page becomes the active page).
AppMethod == "page/create"

\* Result payloads a server can put in a success envelope.
\* "ok" carries none of the handshake members; the others are well-formed
\* initialize results reporting that protocolVersion.  "page" is a
\* well-formed Page.
Payloads == {"ok", "v0.2.0", "v0.1.0", "v1.0.0", "page"}

\* The "data" member of an error envelope: a JSON object, here one that says
\* retryable (an absent member is read as {} and takes the same path), or a
\* value that is no object (null, a string, a number).
ErrorData == {"object", "notobject"}

VARIABLES
    \* WebSocketTransport
    ws,             \* _ws: "none" | "open" | "closed"
    session,        \* _session is not None
    is_closing,     \* _is_closing
    receive_task,   \* _receive_task: "none" | "running" | "done"
    orphans,        \* receive loops still reading a socket that _ws and
                    \* _receive_task no longer refer to
    auto_reconnect,           \* constructor arguments of the transport
    max_reconnect_attempts,
    reconnect_delay,
    reconnect_attempts,       \* _reconnect_attempts
    is_reconnecting,          \* _is_reconnecting
    loops,          \* one record per _receive_loop task (used where the tasks
                    \* are told apart: the transport with auto-reconnect)
    nloops,
    \* BAPClient
    request_id,     \* _request_id
    pending,        \* _pending_requests: set of <<id, call>>
    initialized,    \* _initialized
    capabilities,   \* _server_capabilities
    active_page,    \* _active_page: "none" | "page"
    \* one record per _request invocation (its future, timer and coroutine)
    calls,
    ncalls,
    \* coroutines connect() and close()
    connPc,         \* where connect() is suspended
    connPayload,    \* the initialize result connect() holds
    closePc,        \* where close() is suspended
    \* SSETransport (sse.py), used on its own
    sse,
    \* the inbound router of BAPClient: its handler registries, one pending
    \* call, the receive loop that feeds it, and what the last message did
    router,
    \* the error mapper of errors.py: the arguments it is applied to, the
    \* error built from them, and the error mapped back from its wire form
    err,
    \* one use of the bap_client context manager (context.py)
    ctx,
    \* one client from its construction to the end of its connect(), with
    \* what it put on the wire (client.py: __init__ and connect)
    handshake,
    \* one handler list of the client and one notification dispatched to it
    \* (client.py: the registration methods and _handle_notification)
    dispatch,
    \* the active page of one client and the page calls made on it
    \* (client.py: create_page, close_page and activate_page)
    pages,
    \* observation
    out             \* what the step just taken delivered (handlers, callers)

vars == <<ws, session, is_closing, receive_task, orphans, request_id, pending,
          initialized, capabilities, active_page, calls, ncalls, connPc, connPayload,
          closePc, out, auto_reconnect, max_reconnect_attempts, reconnect_delay,
          reconnect_attempts, is_reconnecting, loops, nloops, sse, router, err, ctx, handshake,
          dispatch, pages>>

\* the components that are modelled on their own, apart from the session
auxVars == <<sse, router, err, ctx, handshake, dispatch, pages>>

transportVars == <<ws, session, is_closing, receive_task, orphans>>
connVars == <<connPc, connPayload>>
reconnVars == <<auto_reconnect, max_reconnect_attempts, reconnect_delay,
                reconnect_attempts, is_reconnecting, loops, nloops>>
clientVars == <<initialized, capabilities, active_page>>

\* ------------------------------------------------------------ values
NoVal == [kind |-> "none", code |-> 0, retryable |-> FALSE, text |-> "-", arg |-> "-"]
ResultVal(p) == [kind |-> "result", code |-> 0, retryable |-> FALSE, text |-> "-", arg |-> p]
ErrorVal(code, retryable, text, arg) ==
    [kind |-> "error", code |-> code, retryable |-> retryable, text |-> text, arg |-> arg]

NoCall == [id |-> 0, method |-> "-", owner |-> "-", pc |-> "unused", fut |-> "none",
           val |-> NoVal, timer |-> "none", settles |-> 0]

\* ------------------------------------------------- _pending_requests
PendingIds(p) == {e[1] : e \in p}
\* self._pending_requests[id] = (future, timer)
DictSet(p, id, c) == {e \in p : e[1] # id} \cup {<<id, c>>}
\* self._pending_requests.pop(id)
DictPop(p, id) == {e \in p : e[1] # id}
\* the (future, timer) stored under id
DictGet(p, id) == (CHOOSE e \in p : e[1] = id)[2]

\* asyncio.Future.done()
FutureDone(cs, c) == cs[c].fut # "pending"

\* future.set_result / future.set_exception
Settle(cs, c, v) ==
    [cs EXCEPT ![c].fut = v.kind, ![c].val = v, ![c].settles = @ + 1]

\* a handler that forgets timer.cancel()
TimerLeftArmed(cs, c) == cs

\* timer.cancel(): a timer that already ran stays as it is
CancelTimer(cs, c) ==
    [cs EXCEPT ![c].timer = IF @ = "armed" THEN "cancelled" ELSE @]

\* A call whose coroutine has ended and to which neither the table nor an
\* armed timer refers can no longer be touched by any code: its future and
\* its timer are released, and what is kept is the request it was.
Released(call) == [id |-> call.id, method |-> call.method, owner |-> call.owner,
                   pc |-> "released", fut |-> "none", val |-> NoVal, timer |-> "none",
                   settles |-> 0]

Unreferenced(cs, p, c) ==
    /\ cs[c].pc \in {"returned", "raised", "sendfailed", "cancelled"}
    /\ \A e \in p : e[2] # c
    /\ cs[c].timer # "armed"

Collect(cs, p) ==
    [c \in CallIds |-> IF Unreferenced(cs, p, c) THEN Released(cs[c]) ELSE cs[c]]

\* WebSocketTransport.send's guard
CanSend == ws = "open"

\* ------------------------------------------------------------ _request
\* a counter that starts again with every connection
NextRequestIdPerConnection == IF connPc = "opening" THEN 1 ELSE request_id + 1

\* self._request_id += 1
NextRequestId == request_id + 1

\* _request up to its first suspension: the future and the timer are made,
\* the entry is stored, and transport.send either starts writing (sendOk) or
\* raises at once, in which case the except clause removes the entry again.
CallsAfterBegin(cs, c, id, m, owner, sendOk) ==
    [cs EXCEPT ![c] = [id |-> id, method |-> m, owner |-> owner,
                       pc |-> IF sendOk THEN "sending" ELSE "sendfailed",
                       fut |-> "pending", val |-> NoVal,
                       timer |-> IF sendOk THEN "armed" ELSE "cancelled",
                       settles |-> 0]]

PendingAfterBegin(p, c, id, sendOk) ==
    IF sendOk THEN DictSet(p, id, c) ELSE DictPop(DictSet(p, id, c), id)

\* the except clause of _request
CallsAfterCleanup(cs, p, c) ==
    IF cs[c].id \in PendingIds(p) THEN CancelTimer(cs, DictGet(p, cs[c].id)) ELSE cs

\* an except clause that cancels the timer and leaves the entry
PendingAfterCleanupKeepsEntry(p, id) == p

PendingAfterCleanup(p, id) == DictPop(p, id)

\* "return await future" once the future is done: how _request ends, and
\* the tables after it (CancelledError is no Exception: no clean-up).
CallsAfterAwait(cs, p, c) ==
    CASE cs[c].fut = "result" -> [cs EXCEPT ![c].pc = "returned"]
      [] cs[c].fut = "error" -> [CallsAfterCleanup(cs, p, c) EXCEPT ![c].pc = "raised"]
      [] OTHER -> [cs EXCEPT ![c].pc = "cancelled"]

PendingAfterAwait(cs, p, c) ==
    IF cs[c].fut = "error" THEN PendingAfterCleanup(p, cs[c].id) ELSE p

\* on_timeout, the closure _request arms with loop.call_later
TimeoutError(m) == ErrorVal(Timeout, TRUE, "Request timeout", m)

CallsAfterTimeout(cs, p, c) ==
    LET fired == [cs EXCEPT ![c].timer = "fired"]
        id == cs[c].id
    IN  IF id \in PendingIds(p) /\ ~FutureDone(cs, DictGet(p, id))
        THEN Settle(fired, DictGet(p, id), TimeoutError(cs[c].method))
        ELSE fired

\* on_timeout without its pop of the entry
PendingAfterTimeoutKeepsEntry(p, id) == p

\* on_timeout emptying the whole table
PendingAfterTimeoutClearsAll(p, id) == {}

PendingAfterTimeout(p, id) == DictPop(p, id)

\* ---------------------------------------------------- inbound frames
ResponseFrame(id, kind, payload) ==
    [type |-> "response", id |-> id, kind |-> kind, payload |-> payload]
CloseFrame == [type |-> "close", id |-> 0, kind |-> "-", payload |-> "-"]
ErrorFrame == [type |-> "wserror", id |-> 0, kind |-> "-", payload |-> "-"]

\* BAPError.from_dict: data = error_dict.get("data", {}), then data.get(...)
FromDictRaises(f) == f.payload = "notobject"
FromDict(f) == ErrorVal(ServerError, f.payload = "object", "server error", "-")

\* _handle_response raises out of _handle_message when from_dict does
ResponseRaises(cs, p, f) ==
    /\ f.id \in PendingIds(p)
    /\ ~FutureDone(cs, DictGet(p, f.id))
    /\ f.kind = "error"
    /\ FromDictRaises(f)

\* _handle_response without its "if future.done(): return"
CallsAfterResponseNoDoneTest(cs, p, f) ==
    IF f.id \notin PendingIds(p) THEN cs
    ELSE LET c == DictGet(p, f.id)
             cancelled == CancelTimer(cs, c)
         IN  CASE f.kind = "error" /\ FromDictRaises(f) -> cancelled
               [] f.kind = "error" -> Settle(cancelled, c, FromDict(f))
               [] OTHER -> Settle(cancelled, c, ResultVal(f.payload))

CallsAfterResponse(cs, p, f) ==
    IF f.id \notin PendingIds(p) THEN cs
    ELSE LET c == DictGet(p, f.id)
             cancelled == CancelTimer(cs, c)
         IN  CASE FutureDone(cs, c) -> cancelled
               [] f.kind = "error" /\ FromDictRaises(f) -> cancelled
               [] f.kind = "error" -> Settle(cancelled, c, FromDict(f))
               [] OTHER -> Settle(cancelled, c, ResultVal(f.payload))

PendingAfterResponse(p, f) == DictPop(p, f.id)

\* What one step delivers to the application: the number of times it ran the
\* "close" and the "error" handlers, how connect() ended in it (with the
\* result it returned or the exception it raised), whether close() returned
\* in it, and whether it logged the older-server warning; and of the
\* transport's own callbacks, whether on_message ran, the attempt number
\* on_reconnecting was called with, and whether on_reconnected ran.
NoOut == [close |-> 0, error |-> 0, connect |-> "-", val |-> NoVal, closed |-> FALSE,
          warned |-> FALSE, message |-> FALSE, reconnecting |-> 0, reconnected |-> FALSE,
          close_raised |-> FALSE, send |-> "-", written |-> FALSE]

\* _handle_close / _handle_error: every registered handler is invoked
HandleClose(o) == [o EXCEPT !.close = @ + 1]
HandleError(o) == [o EXCEPT !.error = @ + 1]

ConnectRaised(o, e) == [o EXCEPT !.connect = "raised", !.val = e]
ConnectReturned(o, p) == [o EXCEPT !.connect = "returned", !.val = ResultVal(p)]
\* logger.warning(...) of connect()
Warned(o, w) == [o EXCEPT !.warned = w]
CloseReturned(o) == [o EXCEPT !.closed = TRUE]

\* ------------------------------------------------------------------ Init
NoLoop == [pc |-> "unused", ref |-> FALSE, cancel |-> FALSE, awaited |-> FALSE,
           dead |-> FALSE, n |-> 0, delay |-> 0, tries |-> 0, reported |-> "-"]

\* WebSocketTransport.__init__, its arguments apart
TransportFields ==
    /\ ws = "none" /\ session = FALSE /\ is_closing = FALSE
    /\ receive_task = "none" /\ orphans = 0
    /\ reconnect_attempts = 0 /\ is_reconnecting = FALSE
    /\ loops = [l \in LoopIds |-> NoLoop] /\ nloops = 0

\* BAPClient.__init__, and no coroutine of the caller started
ClientFields ==
    /\ request_id = 0 /\ pending = {}
    /\ initialized = FALSE /\ capabilities = "none" /\ active_page = "none"
    /\ calls = [c \in CallIds |-> NoCall] /\ ncalls = 0
    /\ connPc = "idle" /\ connPayload = "-"
    /\ closePc = "idle"
    /\ out = NoOut

\* SSETransport.__init__: no HTTP client, no task; loop is where the task
\* of _sse_loop stands, cancel whether its cancellation was requested, exc
\* whether it ended with an exception, pc where the owner's call is suspended
NoSSE == [client |-> FALSE, is_closing |-> FALSE, sse_task |-> FALSE,
          on_message |-> FALSE, on_close |-> FALSE, on_error |-> FALSE,
          loop |-> "unused", cancel |-> FALSE, exc |-> FALSE, pc |-> "idle"]

\* the names a notification is routed by: the three reserved ones, and of
\* the keys of the general registry one event and "close"
Reserved == {"stream/chunk", "stream/end", "approval/required"}
EventNames == Reserved \cup {"page", "close"}

\* what the last inbound message did: the handlers invoked, in order, each
\* with the registry it was taken from; whether an exception left
\* _handle_message; whether the message settled the pending call
NoLast == [msg |-> [form |-> "-", id |-> 0, idtype |-> "none", method |-> "-",
                    params |-> "ok", body |-> "none"],
           invoked |-> <<>>, escaped |-> FALSE, settled |-> FALSE]

\* BAPClient.__init__: empty registries; here with one call pending under
\* id 1 and the receive loop reading
NoRouter == [stream_chunk_handlers |-> <<>>, stream_end_handlers |-> <<>>,
             approval_handlers |-> <<>>,
             event_handlers |-> [e \in EventNames |-> <<>>],
             nhandlers |-> 0,
             pending |-> {1}, fut |-> "pending", loop |-> "reading", errors |-> 0,
             last |-> NoLast]

\* retry_after_ms: int | None, and details: dict | None.  None is NoneMs for
\* the first; the second is a dict (its items: pairs of key and value) or
\* not present.  A value is "v" (a value that is true in a test), "falsy"
\* (0, "", an empty list), "none" (None) or one of the defaults of the code.
NoneMs == -1
NoDetails == [present |-> FALSE, items |-> {}]
Dict(items) == [present |-> TRUE, items |-> items]

\* BAPError.__init__
BAPError(cls, code, message, retryable, retry_after_ms, details) ==
    [cls |-> cls, code |-> code, message |-> message, retryable |-> retryable,
     retry_after_ms |-> retry_after_ms, details |-> details]

NoError == BAPError("-", 0, "-", FALSE, NoneMs, NoDetails)
NoErr == [stage |-> "input", i |-> NoError, e |-> NoError, back |-> NoError]

\* bap_client not yet called.  browser and headless are its two arguments
\* that decide a path ("none" is None); pc is where the generator stands;
\* transport and initialized are the client's _transport and _initialized;
\* error is the exception raised inside the try block and failed_at the
\* statement that raised it; entered says that the body was given the
\* client; closes counts the calls of client.close(), shutdown says that
\* close() asked the server to shut down; raised is what the caller of
\* "async with" gets when the block is left.
NoException == "none"
NoCtx == [pc |-> "idle", browser |-> "none", headless |-> "none",
          transport |-> "none", initialized |-> FALSE,
          error |-> NoException, failed_at |-> "-", entered |-> FALSE,
          closes |-> 0, shutdown |-> FALSE, raised |-> "-"]

\* no client built yet.  requested is the events argument of the
\* constructor (given or None, and the list), events is self._events, wire
\* the events on the wire in order, pc where connect() stands
NoEvents == [given |-> FALSE, list |-> <<>>]
NoHs == [pc |-> "idle", requested |-> NoEvents, events |-> <<>>, wire |-> <<>>,
         payload |-> "-", initialized |-> FALSE, capabilities |-> "none"]

\* an empty handler list and no message yet.  handlers is the list, in
\* registration order; arrived the handlers that were registered when the
\* message arrived, idx the position of the list iterator, invoked the
\* handlers called so far, nid the number of handlers ever registered
NoDispatch == [pc |-> "registering", category |-> "-", handlers |-> <<>>,
               arrived |-> <<>>, idx |-> 1, invoked |-> <<>>, nid |-> 0]

\* _active_page is None after __init__ and no page call has been made; calls
\* are the page calls in the order they were made, sent the requests handed
\* to the transport
NoPages == [active |-> "none", calls |-> <<>>, sent |-> <<>>]

AuxFields ==
    /\ sse = NoSSE /\ router = NoRouter /\ err = NoErr /\ ctx = NoCtx
    /\ handshake = NoHs /\ dispatch = NoDispatch /\ pages = NoPages

\* The client builds its transport as WebSocketTransport(url): no
\* auto-reconnect, and the defaults of the other two arguments.
Init ==
    /\ TransportFields
    /\ ClientFields
    /\ AuxFields
    /\ auto_reconnect = FALSE /\ max_reconnect_attempts = 5 /\ reconnect_delay = 1

\* ------------------------------------------------ application: _request
\* A public method of the client calls _request(method, params).
AppRequest ==
    /\ ncalls < MaxCalls
    /\ LET c == ncalls + 1
           id == NextRequestId
       IN  /\ request_id' = id
           /\ ncalls' = c
           /\ calls' = Collect(CallsAfterBegin(calls, c, id, AppMethod, "app", CanSend),
                               PendingAfterBegin(pending, c, id, CanSend))
           /\ pending' = PendingAfterBegin(pending, c, id, CanSend)
    /\ out' = NoOut
    /\ UNCHANGED <<transportVars, clientVars, connVars, closePc>>
    /\ UNCHANGED <<reconnVars, auxVars>>

\* transport.send wrote the request of an application call
AppSendDone(c) ==
    /\ calls[c].owner = "app" /\ calls[c].pc = "sending"
    /\ ws = "open"
    /\ calls' = [calls EXCEPT ![c].pc = "awaiting"]
    /\ out' = NoOut
    /\ UNCHANGED <<transportVars, request_id, pending, clientVars, ncalls,
                   connVars, closePc>>
    /\ UNCHANGED <<reconnVars, auxVars>>

\* transport.send raised while writing (the socket went down meanwhile)
AppSendFail(c) ==
    /\ calls[c].owner = "app" /\ calls[c].pc = "sending"
    /\ ws # "open"
    /\ calls' = Collect([CallsAfterCleanup(calls, pending, c) EXCEPT ![c].pc = "sendfailed"],
                        PendingAfterCleanup(pending, calls[c].id))
    /\ pending' = PendingAfterCleanup(pending, calls[c].id)
    /\ out' = NoOut
    /\ UNCHANGED <<transportVars, request_id, clientVars, ncalls,
                   connVars, closePc>>
    /\ UNCHANGED <<reconnVars, auxVars>>

\* create_page after "result = await self._request(...)": the id of the
\* validated Page becomes the active page; a call that raised sets nothing
ActivePageAfterCall(call, a) ==
    IF call.method = AppMethod /\ call.fut = "result" THEN call.val.arg ELSE a

\* the application call is resumed from "await future"
AppResume(c) ==
    /\ calls[c].owner = "app" /\ calls[c].pc = "awaiting"
    /\ FutureDone(calls, c)
    /\ calls' = Collect(CallsAfterAwait(calls, pending, c), PendingAfterAwait(calls, pending, c))
    /\ pending' = PendingAfterAwait(calls, pending, c)
    /\ active_page' = ActivePageAfterCall(calls[c], active_page)
    /\ out' = NoOut
    /\ UNCHANGED <<transportVars, request_id, initialized, capabilities, ncalls,
                   connVars, closePc>>
    /\ UNCHANGED <<reconnVars, auxVars>>

\* the task awaiting an application call is cancelled by its owner: while it
\* writes, CancelledError leaves _request past the except clause; while it
\* awaits, the future is cancelled with it
AppCancel(c) ==
    /\ calls[c].owner = "app" /\ calls[c].pc \in {"sending", "awaiting"}
    /\ ~FutureDone(calls, c)
    /\ calls' = Collect([calls EXCEPT ![c].pc = "cancelled",
                                      ![c].fut = IF calls[c].pc = "awaiting"
                                                 THEN "cancelled" ELSE @],
                        pending)
    /\ out' = NoOut
    /\ UNCHANGED <<transportVars, request_id, pending, clientVars, ncalls,
                   connVars, closePc>>
    /\ UNCHANGED <<reconnVars, auxVars>>

\* the timer of call c expires: on_timeout runs
OnTimeout(c) ==
    /\ calls[c].timer = "armed"
    /\ calls' = Collect(CallsAfterTimeout(calls, pending, c),
                        PendingAfterTimeout(pending, calls[c].id))
    /\ pending' = PendingAfterTimeout(pending, calls[c].id)
    /\ out' = NoOut
    /\ UNCHANGED <<transportVars, request_id, clientVars, ncalls,
                   connVars, closePc>>
    /\ UNCHANGED <<reconnVars, auxVars>>

\* ----------------------------------------------------------- the server
IsInitialize(id) == \E c \in CallIds : calls[c].id = id /\ calls[c].method = "initialize"

IsCreate(id) == \E c \in CallIds : calls[c].id = id /\ calls[c].method = AppMethod

\* What a server may write: a response to any id up to the next one to be
\* issued (answered, unanswered, never asked).  The client reads the result
\* of initialize and keeps the page of create_page, other results are
\* opaque; and of a frame whose id is not in the table nothing but the id is
\* read, so one such frame stands for all of them.
ResultPayloads(id) ==
    CASE IsInitialize(id) -> Payloads \ {"page"}
      [] IsCreate(id) -> {"page"}
      [] OTHER -> {"ok"}

ServerFrames ==
    LET ids == {i \in CallIds : i <= request_id + 1}
        known == ids \cap PendingIds(pending)
    IN  UNION {{ResponseFrame(i, "result", p) : p \in ResultPayloads(i)} : i \in known}
        \cup {ResponseFrame(i, "error", d) : i \in known, d \in ErrorData}
        \cup {ResponseFrame(i, "result", "ok") : i \in ids \ known}

\* ------------------------------------------------- _receive_loop
\* The loop is suspended in the socket's receive and handles each frame as
\* the socket delivers it; a cancel requested by close() is what it sees next.
LoopReads == receive_task = "running" /\ ws = "open" /\ closePc # "cancelling"

\* a TEXT frame: on_message -> _handle_message -> _handle_response.  An
\* exception of the handler ends the loop: on_error, then on_close.
Receive(f) ==
    /\ LoopReads
    /\ calls' = Collect(CallsAfterResponse(calls, pending, f),
                        PendingAfterResponse(pending, f))
    /\ pending' = PendingAfterResponse(pending, f)
    /\ IF ResponseRaises(calls, pending, f)
       THEN receive_task' = "done" /\ out' = HandleClose(HandleError(NoOut))
       ELSE receive_task' = receive_task /\ out' = NoOut
    /\ UNCHANGED <<ws, session, is_closing, orphans, request_id, clientVars, ncalls,
                   connVars, closePc>>
    /\ UNCHANGED <<reconnVars, auxVars>>

ReceiveResponse == \E f \in ServerFrames : Receive(f)

\* a CLOSE/CLOSED frame ends the iteration; an ERROR frame is reported to
\* on_error first; the finally clause reports on_close (no auto-reconnect)
ReceiveEnd ==
    /\ LoopReads
    /\ ws' = "closed"
    /\ receive_task' = "done"
    /\ \E f \in {CloseFrame, ErrorFrame} :
          out' = IF f.type = "wserror"
                 THEN HandleClose(HandleError(NoOut)) ELSE HandleClose(NoOut)
    /\ UNCHANGED <<session, is_closing, orphans, request_id, pending, clientVars,
                   calls, ncalls, connVars, closePc>>
    /\ UNCHANGED <<reconnVars, auxVars>>

\* A receive loop left behind by a later connect() goes on reading its own
\* socket and hands every frame to the same on_message; an exception of the
\* handler ends it like any other loop.
OrphanReceive(f) ==
    /\ orphans > 0
    /\ calls' = Collect(CallsAfterResponse(calls, pending, f),
                        PendingAfterResponse(pending, f))
    /\ pending' = PendingAfterResponse(pending, f)
    /\ IF ResponseRaises(calls, pending, f)
       THEN orphans' = orphans - 1 /\ out' = HandleClose(HandleError(NoOut))
       ELSE orphans' = orphans /\ out' = NoOut
    /\ UNCHANGED <<ws, session, is_closing, receive_task, request_id, clientVars,
                   ncalls, connVars, closePc>>
    /\ UNCHANGED <<reconnVars, auxVars>>

OrphanReceiveResponse == \E f \in ServerFrames : OrphanReceive(f)

\* the socket of such a loop ends: its finally clause reports on_close
OrphanEnd ==
    /\ orphans > 0
    /\ orphans' = orphans - 1
    /\ \E f \in {CloseFrame, ErrorFrame} :
          out' = IF f.type = "wserror"
                 THEN HandleClose(HandleError(NoOut)) ELSE HandleClose(NoOut)
    /\ UNCHANGED <<ws, session, is_closing, receive_task, request_id, pending,
                   clientVars, calls, ncalls, connVars, closePc>>
    /\ UNCHANGED <<reconnVars, auxVars>>

\* ---------------------------------------------------------- connect()
Exception(text) == [kind |-> "exception", code |-> 0, retryable |-> FALSE,
                    text |-> text, arg |-> "-"]

\* result.get("protocolVersion", "0.0.0"), split at "." and read as integers
ServerParts(p) ==
    CASE p = "v0.2.0" -> <<0, 2, 0>>
      [] p = "v0.1.0" -> <<0, 1, 0>>
      [] p = "v1.0.0" -> <<1, 0, 0>>
      [] OTHER -> <<0, 0, 0>>

\* server_parts[0] != client_parts[0]
MajorMismatch(p) == ServerParts(p)[1] # ClientMajor
\* server_parts[1] < client_parts[1]: logged as a warning only
MinorOlder(p) == ServerParts(p)[2] < ClientMinor

MismatchError(p) == ErrorVal(InvalidRequest, FALSE, "Protocol version mismatch", p)

\* result.get("capabilities")
CapabilitiesOf(p) == IF p = "ok" THEN "none" ELSE "caps"

\* InitializeResult.model_validate(result)
ValidInitializeResult(p) == p # "ok"

\* connect() is called, whatever the state of the channel (neither
\* BAPClient.connect nor WebSocketTransport.connect tests it):
\* transport.connect() runs up to "await ws_connect"
ConnectStart ==
    /\ connPc = "idle" /\ closePc = "idle"
    /\ is_closing' = FALSE
    /\ session' = TRUE
    /\ connPc' = "opening"
    /\ out' = NoOut
    /\ UNCHANGED <<ws, receive_task, orphans, request_id, pending, clientVars,
                   calls, ncalls, connPayload, closePc>>
    /\ UNCHANGED <<reconnVars, auxVars>>

\* self._ws and self._receive_task are overwritten: a loop that was running
\* is no longer referred to and keeps reading its socket
OrphansAfterConnect == IF receive_task = "running" THEN orphans + 1 ELSE orphans

\* the channel is up: the receive task is created and connect() goes on
\* to _request("initialize"), whose send starts on the open socket
ConnectOpened ==
    /\ connPc = "opening"
    /\ ncalls < MaxCalls
    /\ ws' = "open" /\ receive_task' = "running"
    /\ orphans' = OrphansAfterConnect
    /\ LET c == ncalls + 1
           id == NextRequestId
       IN  /\ request_id' = id
           /\ ncalls' = c
           /\ calls' = Collect(CallsAfterBegin(calls, c, id, "initialize", "connect", TRUE),
                               PendingAfterBegin(pending, c, id, TRUE))
           /\ pending' = PendingAfterBegin(pending, c, id, TRUE)
    /\ connPc' = "handshake"
    /\ out' = NoOut
    /\ UNCHANGED <<session, is_closing, clientVars, connPayload, closePc>>
    /\ UNCHANGED <<reconnVars, auxVars>>

\* ws_connect raised: on_error is told and the error reaches the caller
ConnectRefused ==
    /\ connPc = "opening"
    /\ connPc' = "idle"
    /\ out' = ConnectRaised(HandleError(NoOut), Exception("connection refused"))
    /\ UNCHANGED <<transportVars, request_id, pending, clientVars, calls,
                   ncalls, connPayload, closePc>>
    /\ UNCHANGED <<reconnVars, auxVars>>

\* transport.send wrote the request connect() is awaiting
ConnectSendDone(c) ==
    /\ calls[c].owner = "connect" /\ calls[c].pc = "sending"
    /\ ws = "open"
    /\ calls' = [calls EXCEPT ![c].pc = "awaiting"]
    /\ out' = NoOut
    /\ UNCHANGED <<transportVars, request_id, pending, clientVars, ncalls,
                   connVars, closePc>>
    /\ UNCHANGED <<reconnVars, auxVars>>

\* that send raised: _request cleans up and connect() raises
ConnectSendFail(c) ==
    /\ calls[c].owner = "connect" /\ calls[c].pc = "sending"
    /\ ws # "open"
    /\ calls' = Collect([CallsAfterCleanup(calls, pending, c) EXCEPT ![c].pc = "sendfailed"],
                        PendingAfterCleanup(pending, calls[c].id))
    /\ pending' = PendingAfterCleanup(pending, calls[c].id)
    /\ connPc' = "idle" /\ connPayload' = "-"
    /\ out' = ConnectRaised(NoOut, Exception("WebSocket not connected"))
    /\ UNCHANGED <<transportVars, request_id, clientVars, ncalls, closePc>>
    /\ UNCHANGED <<reconnVars, auxVars>>

\* connect() after "await self._request('initialize', ...)" returned p:
\* the version check, the two assignments, and the start of _notify
\* a version check that also refuses an older minor
ConnPcAfterHandshakeStrictMinor(p) ==
    CASE MajorMismatch(p) \/ MinorOlder(p) -> "idle"
      [] ~CanSend -> "idle"
      [] OTHER -> "notifying"

ConnPcAfterHandshake(p) ==
    CASE MajorMismatch(p) -> "idle"
      [] ~CanSend -> "idle"
      [] OTHER -> "notifying"

OutAfterHandshake(p) ==
    CASE MajorMismatch(p) -> ConnectRaised(NoOut, MismatchError(p))
      [] ~CanSend ->
           Warned(ConnectRaised(NoOut, Exception("WebSocket not connected")), MinorOlder(p))
      [] OTHER -> Warned(NoOut, MinorOlder(p))

\* self._initialized = True placed before the version check
InitializedBeforeVersionCheck(p) == TRUE

InitializedAfterHandshake(p) == IF MajorMismatch(p) THEN initialized ELSE TRUE

CapabilitiesAfterHandshake(p) ==
    IF MajorMismatch(p) THEN capabilities ELSE CapabilitiesOf(p)

\* the initialize call is settled and connect() is resumed
ConnectHandshakeResume(c) ==
    /\ calls[c].owner = "connect" /\ calls[c].method = "initialize"
    /\ calls[c].pc = "awaiting" /\ FutureDone(calls, c)
    /\ calls' = Collect(CallsAfterAwait(calls, pending, c), PendingAfterAwait(calls, pending, c))
    /\ pending' = PendingAfterAwait(calls, pending, c)
    /\ IF calls[c].fut = "result"
       THEN LET p == calls[c].val.arg
            IN  /\ connPc' = ConnPcAfterHandshake(p)
                /\ connPayload' = IF ConnPcAfterHandshake(p) = "idle" THEN "-" ELSE p
                /\ out' = OutAfterHandshake(p)
                /\ initialized' = InitializedAfterHandshake(p)
                /\ capabilities' = CapabilitiesAfterHandshake(p)
                /\ UNCHANGED active_page
       ELSE /\ connPc' = "idle" /\ connPayload' = "-"
            /\ out' = ConnectRaised(NoOut, calls[c].val)
            /\ UNCHANGED clientVars
    /\ UNCHANGED <<transportVars, request_id, ncalls, closePc>>
    /\ UNCHANGED <<reconnVars, auxVars>>

\* the initialized notification is written; connect() goes on to
\* _request("events/subscribe") (self._events is never empty)
ConnectNotifyDone ==
    /\ connPc = "notifying"
    /\ ws = "open"
    /\ ncalls < MaxCalls
    /\ LET c == ncalls + 1
           id == NextRequestId
       IN  /\ request_id' = id
           /\ ncalls' = c
           /\ calls' = Collect(CallsAfterBegin(calls, c, id, "events/subscribe", "connect", TRUE),
                               PendingAfterBegin(pending, c, id, TRUE))
           /\ pending' = PendingAfterBegin(pending, c, id, TRUE)
    /\ connPc' = "subscribing"
    /\ out' = NoOut
    /\ UNCHANGED <<transportVars, clientVars, connPayload, closePc>>
    /\ UNCHANGED <<reconnVars, auxVars>>

\* writing the notification raised
ConnectNotifyFail ==
    /\ connPc = "notifying"
    /\ ws # "open"
    /\ connPc' = "idle" /\ connPayload' = "-"
    /\ out' = ConnectRaised(NoOut, Exception("WebSocket not connected"))
    /\ UNCHANGED <<transportVars, request_id, pending, clientVars, calls,
                   ncalls, closePc>>
    /\ UNCHANGED <<reconnVars, auxVars>>

\* the subscribe call is settled: connect() validates the initialize result
\* and returns it
ConnectSubscribeResume(c) ==
    /\ calls[c].owner = "connect" /\ calls[c].method = "events/subscribe"
    /\ calls[c].pc = "awaiting" /\ FutureDone(calls, c)
    /\ calls' = Collect(CallsAfterAwait(calls, pending, c), PendingAfterAwait(calls, pending, c))
    /\ pending' = PendingAfterAwait(calls, pending, c)
    /\ connPc' = "idle" /\ connPayload' = "-"
    /\ out' = CASE calls[c].fut # "result" -> ConnectRaised(NoOut, calls[c].val)
                [] ~ValidInitializeResult(connPayload) ->
                       ConnectRaised(NoOut, Exception("validation error"))
                [] OTHER -> ConnectReturned(NoOut, connPayload)
    /\ UNCHANGED <<transportVars, request_id, clientVars, ncalls, closePc>>
    /\ UNCHANGED <<reconnVars, auxVars>>

\* ------------------------------------------------------------- close()
ClientClosedError == ErrorVal(ServerError, FALSE, "Client closed", "-")

PendingCalls(p) == {e[2] : e \in p}

\* the loop over _pending_requests at the end of close()
CallsAfterClose(cs, p) ==
    [c \in CallIds |->
        IF c \notin PendingCalls(p) THEN cs[c]
        ELSE IF FutureDone(cs, c) THEN CancelTimer(cs, c)[c]
        ELSE Settle(CancelTimer(cs, c), c, ClientClosedError)[c]]

\* self._pending_requests.clear()
PendingAfterClose(p) == {}

\* close() from "await self._transport.close()" on, with the tables cs and p
\* as the shutdown attempt left them.  transport.close() suspends at the
\* cancelled receive task, at the socket's close handshake and at the
\* session's close; with nothing to release it does not suspend, and the
\* rest of close() runs in the same step.
EnterTransportClose(cs, p) ==
    /\ is_closing' = TRUE
    /\ IF receive_task = "running"
       THEN /\ closePc' = "cancelling"
            /\ calls' = Collect(cs, p) /\ pending' = p
            /\ out' = NoOut
            /\ UNCHANGED <<ws, session, receive_task, orphans, clientVars>>
       ELSE IF ws # "none" \/ session
       THEN /\ closePc' = "closing"
            /\ receive_task' = "none"
            /\ ws' = IF ws = "none" THEN "none" ELSE "closed"
            /\ calls' = Collect(cs, p) /\ pending' = p
            /\ out' = NoOut
            /\ UNCHANGED <<session, orphans, clientVars>>
       ELSE /\ closePc' = "idle"
            /\ receive_task' = "none"
            /\ initialized' = FALSE /\ capabilities' = "none"
            /\ UNCHANGED active_page
            /\ calls' = Collect(CallsAfterClose(cs, p), PendingAfterClose(p))
            /\ pending' = PendingAfterClose(p)
            /\ out' = CloseReturned(NoOut)
            /\ UNCHANGED <<ws, session, orphans>>

\* a close() that asks every server to shut down first
SendsShutdownAlways == TRUE

\* "if self._initialized:" at the head of close()
SendsShutdown == initialized

\* close() is called.  Initialized: _request("shutdown") first, whose
\* failure is swallowed.
CloseStart ==
    /\ closePc = "idle"
    /\ connPc # "opening"
    /\ IF SendsShutdown
       THEN /\ ncalls < MaxCalls
            /\ LET c == ncalls + 1
                   id == NextRequestId
                   cs == CallsAfterBegin(calls, c, id, "shutdown", "close", CanSend)
                   p == PendingAfterBegin(pending, c, id, CanSend)
               IN  /\ request_id' = id
                   /\ ncalls' = c
                   /\ IF CanSend
                      THEN /\ calls' = Collect(cs, p) /\ pending' = p
                           /\ closePc' = "shutdown"
                           /\ out' = NoOut
                           /\ UNCHANGED <<transportVars, clientVars>>
                      ELSE EnterTransportClose(cs, p)
       ELSE /\ EnterTransportClose(calls, pending)
            /\ UNCHANGED <<request_id, ncalls>>
    /\ UNCHANGED connVars
    /\ UNCHANGED <<reconnVars, auxVars>>

\* the shutdown request is written
CloseSendDone(c) ==
    /\ calls[c].owner = "close" /\ calls[c].pc = "sending"
    /\ ws = "open"
    /\ calls' = [calls EXCEPT ![c].pc = "awaiting"]
    /\ out' = NoOut
    /\ UNCHANGED <<transportVars, request_id, pending, clientVars, ncalls,
                   connVars, closePc>>
    /\ UNCHANGED <<reconnVars, auxVars>>

\* writing it raised: swallowed, close() goes on to transport.close()
CloseSendFail(c) ==
    /\ calls[c].owner = "close" /\ calls[c].pc = "sending"
    /\ ws # "open"
    /\ EnterTransportClose(
          [CallsAfterCleanup(calls, pending, c) EXCEPT ![c].pc = "sendfailed"],
          PendingAfterCleanup(pending, calls[c].id))
    /\ UNCHANGED <<request_id, ncalls, connVars>>
    /\ UNCHANGED <<reconnVars, auxVars>>

\* the shutdown call is settled (result or error): close() goes on
CloseResume(c) ==
    /\ calls[c].owner = "close" /\ calls[c].pc = "awaiting"
    /\ FutureDone(calls, c)
    /\ EnterTransportClose(CallsAfterAwait(calls, pending, c),
                           PendingAfterAwait(calls, pending, c))
    /\ UNCHANGED <<request_id, ncalls, connVars>>
    /\ UNCHANGED <<reconnVars, auxVars>>

\* the cancelled receive task runs: CancelledError is caught and the finally
\* clause reports on_close (_is_closing is set, so no reconnect)
CloseTaskCancelled ==
    /\ closePc = "cancelling" /\ receive_task = "running"
    /\ receive_task' = "done"
    /\ out' = HandleClose(NoOut)
    /\ UNCHANGED <<ws, session, is_closing, orphans, request_id, pending,
                   clientVars, calls, ncalls, connVars, closePc>>
    /\ UNCHANGED <<reconnVars, auxVars>>

\* transport.close() is resumed by the finished task and closes the socket
CloseTaskAwaited ==
    /\ closePc = "cancelling" /\ receive_task = "done"
    /\ receive_task' = "none"
    /\ ws' = IF ws = "none" THEN "none" ELSE "closed"
    /\ closePc' = "closing"
    /\ out' = NoOut
    /\ UNCHANGED <<session, is_closing, orphans, request_id, pending, clientVars,
                   calls, ncalls, connVars>>
    /\ UNCHANGED <<reconnVars, auxVars>>

\* transport.close() returns and close() runs to its end
CloseFinish ==
    /\ closePc = "closing"
    /\ ws' = "none" /\ session' = FALSE
    /\ initialized' = FALSE /\ capabilities' = "none"
    /\ UNCHANGED active_page
    /\ calls' = Collect(CallsAfterClose(calls, pending), PendingAfterClose(pending))
    /\ pending' = PendingAfterClose(pending)
    /\ closePc' = "idle"
    /\ out' = CloseReturned(NoOut)
    /\ UNCHANGED <<is_closing, receive_task, orphans, request_id, ncalls,
                   connVars>>
    /\ UNCHANGED <<reconnVars, auxVars>>

\* ------------------------------------------------------------------ Next
Next ==
    \/ AppRequest
    \/ \E c \in CallIds : AppSendDone(c)
    \/ \E c \in CallIds : AppSendFail(c)
    \/ \E c \in CallIds : AppResume(c)
    \/ \E c \in CallIds : AppCancel(c)
    \/ \E c \in CallIds : OnTimeout(c)
    \/ ReceiveResponse
    \/ ReceiveEnd
    \/ OrphanReceiveResponse
    \/ OrphanEnd
    \/ ConnectStart
    \/ ConnectOpened
    \/ ConnectRefused
    \/ \E c \in CallIds : ConnectSendDone(c)
    \/ \E c \in CallIds : ConnectSendFail(c)
    \/ \E c \in CallIds : ConnectHandshakeResume(c)
    \/ ConnectNotifyDone
    \/ ConnectNotifyFail
    \/ \E c \in CallIds : ConnectSubscribeResume(c)
    \/ CloseStart
    \/ \E c \in CallIds : CloseSendDone(c)
    \/ \E c \in CallIds : CloseSendFail(c)
    \/ \E c \in CallIds : CloseResume(c)
    \/ CloseTaskCancelled
    \/ CloseTaskAwaited
    \/ CloseFinish

Spec == Init /\ [][Next]_vars

\* The event loop runs every timer that is due: loop.call_later callbacks
\* are not starved.
FairSpec == Spec /\ \A c \in CallIds : WF_vars(OnTimeout(c))

\* The event loop also resumes close() whenever what it awaits is done: the
\* write of the shutdown request ends or fails, the settled shutdown call
\* resumes it, the cancelled receive task runs, and the closing of the
\* socket and of the session complete.
CloseFairSpec ==
    /\ FairSpec
    /\ \A c \in CallIds : WF_vars(CloseSendDone(c)) /\ WF_vars(CloseSendFail(c))
                           /\ WF_vars(CloseResume(c))
    /\ WF_vars(CloseTaskCancelled) /\ WF_vars(CloseTaskAwaited) /\ WF_vars(CloseFinish)

\* ===================================== WebSocketTransport with auto-reconnect
\* The transport used on its own: an owner calls connect() and close(), one
\* call at a time, and is told of what happens through the five callbacks.
\* Every _receive_loop task has a record in loops, so that a loop which no
\* attribute refers to any more can be followed to its end.
Running(ls, l) == ls[l].pc \in {"reading", "sleeping", "connecting"}

\* self._receive_task: none, a task that has not ended, or one that has
TaskOf(ls) ==
    IF \A l \in LoopIds : ~ls[l].ref THEN "none"
    ELSE IF \E l \in LoopIds : ls[l].ref /\ Running(ls, l) THEN "running" ELSE "done"

OrphansOf(ls) == Cardinality({l \in LoopIds : ~ls[l].ref /\ Running(ls, l)})

\* "if self.on_message: self.on_message(...)" and the four others
OnMessage(o) == [o EXCEPT !.message = TRUE]
OnClose(o) == [o EXCEPT !.close = @ + 1]
OnError(o) == [o EXCEPT !.error = @ + 1]
OnReconnecting(o, n) == [o EXCEPT !.reconnecting = n]
OnReconnected(o) == [o EXCEPT !.reconnected = TRUE]

\* delay = self.reconnect_delay * (2 ** (self._reconnect_attempts - 1))
Backoff(n) == reconnect_delay * 2^(n - 1)

\* _attempt_reconnect without its re-entry guard
GuardNever == FALSE

\* "if self._is_reconnecting: return" at the head of _attempt_reconnect
GuardHolds == is_reconnecting

\* "while self._reconnect_attempts < self.max_reconnect_attempts:" and
\* "if self._is_closing: break"
GoesOn == reconnect_attempts < max_reconnect_attempts /\ ~is_closing

\* _attempt_reconnect from the test of its while loop to the next suspension,
\* for loop l, with the records ls and the callbacks o of the step so far:
\* the counter is incremented, the attempt is announced and the loop sleeps;
\* or the loop is left, the finally clause releases the guard, and the
\* exception raised after the loop becomes on_close in _receive_loop.
NextAttempt(l, ls, o) ==
    IF GoesOn
    THEN /\ reconnect_attempts' = reconnect_attempts + 1
         /\ is_reconnecting' = TRUE
         /\ loops' = [ls EXCEPT ![l].pc = "sleeping",
                                ![l].n = reconnect_attempts + 1,
                                ![l].delay = Backoff(reconnect_attempts + 1)]
         /\ out' = OnReconnecting(o, reconnect_attempts + 1)
    ELSE /\ reconnect_attempts' = reconnect_attempts
         /\ is_reconnecting' = FALSE
         /\ loops' = [ls EXCEPT ![l].pc = "done", ![l].reported = "close"]
         /\ out' = OnClose(o)

\* the finally clause of _receive_loop
LoopFinally(l, ls, o) ==
    IF auto_reconnect /\ ~is_closing
    THEN IF GuardHolds
         THEN /\ loops' = [ls EXCEPT ![l].pc = "done"]
              /\ out' = o
              /\ UNCHANGED <<reconnect_attempts, is_reconnecting>>
         ELSE NextAttempt(l, ls, o)
    ELSE /\ loops' = [ls EXCEPT ![l].pc = "done", ![l].reported = "close"]
         /\ out' = OnClose(o)
         /\ UNCHANGED <<reconnect_attempts, is_reconnecting>>

\* self._receive_task = asyncio.create_task(self._receive_loop()): the new
\* task is the one referred to, every other one is not
LoopsAfterConnect(ls) ==
    [l \in LoopIds |-> IF l = nloops + 1
                       THEN [NoLoop EXCEPT !.pc = "reading", !.ref = TRUE]
                       ELSE [ls[l] EXCEPT !.ref = FALSE]]

\* self._receive_task = None
LoopsAfterRelease(ls) ==
    [l \in LoopIds |-> [ls[l] EXCEPT !.ref = FALSE, !.awaited = FALSE]]

\* what the transport's steps leave alone, and the task attributes as the
\* records of the loops give them
TransportRest ==
    /\ receive_task' = TaskOf(loops')
    /\ orphans' = OrphansOf(loops')
    /\ UNCHANGED <<request_id, pending, clientVars, calls, ncalls, connPayload,
                   auto_reconnect, max_reconnect_attempts, reconnect_delay, auxVars>>

\* a TEXT frame: on_message; an exception it raises is reported to on_error
\* and ends the loop
LoopMessage(l) ==
    /\ loops[l].pc = "reading" /\ ~loops[l].cancel
    /\ \E raises \in BOOLEAN :
          IF raises
          THEN LoopFinally(l, loops, OnError(OnMessage(NoOut)))
          ELSE /\ out' = OnMessage(NoOut)
               /\ UNCHANGED <<loops, reconnect_attempts, is_reconnecting>>
    /\ UNCHANGED <<ws, session, is_closing, nloops, connPc, closePc>>
    /\ TransportRest

\* the socket of loop l ends (CLOSED, or ERROR reported to on_error first)
LoopEnd(l) ==
    /\ loops[l].pc = "reading" /\ ~loops[l].cancel
    /\ ws' = IF loops[l].ref /\ ws = "open" THEN "closed" ELSE ws
    /\ \E f \in {CloseFrame, ErrorFrame} :
          LoopFinally(l, loops, IF f.type = "wserror" THEN OnError(NoOut) ELSE NoOut)
    /\ UNCHANGED <<session, is_closing, nloops, connPc, closePc>>
    /\ TransportRest

\* the task close() has cancelled runs: in the iteration CancelledError is
\* caught and the finally clause follows; in the sleep or in the connect
\* attempt of _attempt_reconnect it passes through both finally clauses
LoopCancelled(l) ==
    /\ loops[l].cancel /\ Running(loops, l)
    /\ IF loops[l].pc = "reading"
       THEN LoopFinally(l, [loops EXCEPT ![l].cancel = FALSE], NoOut)
       ELSE /\ loops' = [loops EXCEPT ![l].pc = "cancelled", ![l].cancel = FALSE]
            /\ is_reconnecting' = FALSE
            /\ out' = NoOut
            /\ UNCHANGED reconnect_attempts
    /\ UNCHANGED <<ws, session, is_closing, nloops, connPc, closePc>>
    /\ TransportRest

\* the sleep of loop l is over: "await self.connect()" runs to ws_connect
ReconnectWake(l) ==
    /\ loops[l].pc = "sleeping" /\ ~loops[l].cancel
    /\ loops[l].tries < MaxTries
    /\ is_closing' = FALSE /\ session' = TRUE
    /\ loops' = [loops EXCEPT ![l].pc = "connecting", ![l].tries = @ + 1,
                              ![l].dead = FALSE]
    /\ out' = NoOut
    /\ UNCHANGED <<ws, reconnect_attempts, is_reconnecting, nloops, connPc, closePc>>
    /\ TransportRest

\* the attempt succeeded: connect() returns, on_reconnected, return
ReconnectOpened(l) ==
    /\ loops[l].pc = "connecting" /\ ~loops[l].cancel /\ ~loops[l].dead
    /\ nloops < MaxLoops
    /\ ws' = "open" /\ reconnect_attempts' = 0
    /\ loops' = [LoopsAfterConnect(loops) EXCEPT ![l].pc = "done",
                                                 ![l].reported = "reconnected"]
    /\ nloops' = nloops + 1
    /\ is_reconnecting' = FALSE
    /\ out' = OnReconnected(NoOut)
    /\ UNCHANGED <<session, is_closing, connPc, closePc>>
    /\ TransportRest

\* the attempt failed: connect() reports to on_error and raises, "continue"
ReconnectRefused(l) ==
    /\ loops[l].pc = "connecting" /\ ~loops[l].cancel
    /\ NextAttempt(l, loops, OnError(NoOut))
    /\ UNCHANGED <<ws, session, is_closing, nloops, connPc, closePc>>
    /\ TransportRest

\* the owner calls connect(): it runs to "await ws_connect"
OwnerConnectStart ==
    /\ connPc = "idle" /\ closePc = "idle"
    /\ is_closing' = FALSE /\ session' = TRUE
    /\ connPc' = "opening"
    /\ out' = NoOut
    /\ UNCHANGED <<ws, reconnect_attempts, is_reconnecting, loops, nloops, closePc>>
    /\ TransportRest

OwnerConnectOpened ==
    /\ connPc = "opening"
    /\ nloops < MaxLoops
    /\ ws' = "open" /\ reconnect_attempts' = 0
    /\ loops' = LoopsAfterConnect(loops)
    /\ nloops' = nloops + 1
    /\ connPc' = "idle"
    /\ out' = [NoOut EXCEPT !.connect = "returned"]
    /\ UNCHANGED <<session, is_closing, is_reconnecting, closePc>>
    /\ TransportRest

OwnerConnectRefused ==
    /\ connPc = "opening"
    /\ connPc' = "idle"
    /\ out' = ConnectRaised(OnError(NoOut), Exception("connection refused"))
    /\ UNCHANGED <<ws, session, is_closing, reconnect_attempts, is_reconnecting,
                   loops, nloops, closePc>>
    /\ TransportRest

\* the owner calls close(): _is_closing is set, the task referred to is
\* cancelled and awaited; a task that has ended, or none, does not suspend
\* close(), which goes on to the socket and the session
OwnerCloseStart ==
    /\ closePc = "idle" /\ connPc = "idle"
    /\ is_closing' = TRUE
    /\ IF \E l \in LoopIds : loops[l].ref /\ Running(loops, l)
       THEN /\ loops' = [l \in LoopIds |->
                            IF loops[l].ref
                            THEN [loops[l] EXCEPT !.cancel = TRUE, !.awaited = TRUE]
                            ELSE loops[l]]
            /\ closePc' = "cancelling"
            /\ out' = NoOut
            /\ UNCHANGED <<ws, session, reconnect_attempts>>
       ELSE IF ws # "none" \/ session
       THEN /\ loops' = LoopsAfterRelease(loops)
            /\ ws' = IF ws = "none" THEN "none" ELSE "closed"
            /\ closePc' = "closing"
            /\ out' = NoOut
            /\ UNCHANGED <<session, reconnect_attempts>>
       ELSE /\ loops' = LoopsAfterRelease(loops)
            /\ reconnect_attempts' = 0
            /\ closePc' = "idle"
            /\ out' = CloseReturned(NoOut)
            /\ UNCHANGED <<ws, session>>
    /\ UNCHANGED <<is_reconnecting, nloops, connPc>>
    /\ TransportRest

\* the awaited task has ended: close() drops the reference, whatever task it
\* is by now, and closes the socket _ws refers to by now
OwnerCloseTaskAwaited ==
    /\ closePc = "cancelling"
    /\ \A l \in LoopIds : loops[l].awaited => ~Running(loops, l)
    /\ loops' = LoopsAfterRelease(loops)
    /\ ws' = IF ws = "none" THEN "none" ELSE "closed"
    /\ closePc' = "closing"
    /\ out' = NoOut
    /\ UNCHANGED <<session, is_closing, reconnect_attempts, is_reconnecting, nloops,
                   connPc>>
    /\ TransportRest

\* the socket and the session are closed: close() returns.  A connect
\* attempt in flight on the closed session can only fail.
OwnerCloseFinish ==
    /\ closePc = "closing"
    /\ ws' = "none" /\ session' = FALSE
    /\ reconnect_attempts' = 0
    /\ loops' = [l \in LoopIds |->
                    IF loops[l].pc = "connecting" THEN [loops[l] EXCEPT !.dead = TRUE]
                    ELSE loops[l]]
    /\ closePc' = "idle"
    /\ out' = CloseReturned(NoOut)
    /\ UNCHANGED <<is_closing, is_reconnecting, nloops, connPc>>
    /\ TransportRest

TransportNext ==
    \/ \E l \in LoopIds : LoopMessage(l)
    \/ \E l \in LoopIds : LoopEnd(l)
    \/ \E l \in LoopIds : LoopCancelled(l)
    \/ \E l \in LoopIds : ReconnectWake(l)
    \/ \E l \in LoopIds : ReconnectOpened(l)
    \/ \E l \in LoopIds : ReconnectRefused(l)
    \/ OwnerConnectStart
    \/ OwnerConnectOpened
    \/ OwnerConnectRefused
    \/ OwnerCloseStart
    \/ OwnerCloseTaskAwaited
    \/ OwnerCloseFinish

\* a transport built with any of the arguments in the bounds
TransportInit ==
    /\ TransportFields
    /\ ClientFields
    /\ AuxFields
    /\ auto_reconnect \in BOOLEAN
    /\ max_reconnect_attempts \in 1..MaxAttempts
    /\ reconnect_delay \in Delays

TransportSpec == TransportInit /\ [][TransportNext]_vars

\* ============================================================ SSETransport
\* The SSE transport used on its own by an owner that calls connect(),
\* send() and close() one at a time, and connect() only when no _sse_loop
\* task of an earlier connect() is still running.  The callbacks are the
\* owner's: each is set or not, and on_message and on_close may raise.
SSERest ==
    UNCHANGED <<transportVars, request_id, pending, clientVars, calls, ncalls,
                connVars, closePc, reconnVars, router, err, ctx, handshake,
                dispatch, pages>>

SSERunning(s) == s.loop \in {"connecting", "reading"}

\* is_connected
SSEIsConnected(s) == s.client /\ ~s.is_closing

\* the end of _sse_loop: the except clauses and the finally clause.  e says
\* that the body raised, closeRaises that on_close does
SSELoopEnds(s, closeRaises) ==
    [s EXCEPT !.loop = "done", !.cancel = FALSE,
              !.exc = closeRaises /\ s.on_close /\ ~s.is_closing]

SSEOutAfterEnd(s, o, e) ==
    IF s.is_closing THEN o
    ELSE IF s.on_close THEN OnClose(IF e /\ s.on_error THEN OnError(o) ELSE o)
    ELSE IF e /\ s.on_error THEN OnError(o)
    ELSE o

\* connect(): the HTTP client is built and the task created; nothing is awaited
SSEConnect ==
    /\ sse.pc = "idle" /\ ~SSERunning(sse)
    /\ sse' = [sse EXCEPT !.is_closing = FALSE, !.client = TRUE, !.sse_task = TRUE,
                          !.loop = "connecting", !.cancel = FALSE, !.exc = FALSE]
    /\ out' = [NoOut EXCEPT !.connect = "returned"]
    /\ SSERest

\* GET /events is answered with an event stream
SSEOpened ==
    /\ sse.loop = "connecting" /\ ~sse.cancel
    /\ sse' = [sse EXCEPT !.loop = "reading"]
    /\ out' = NoOut
    /\ SSERest

\* GET /events is refused, or answered with something else
SSERefused ==
    /\ sse.loop = "connecting" /\ ~sse.cancel
    /\ \E closeRaises \in BOOLEAN : sse' = SSELoopEnds(sse, closeRaises)
    /\ out' = SSEOutAfterEnd(sse, NoOut, TRUE)
    /\ SSERest

\* one event of the stream
SSEEvent ==
    /\ sse.loop = "reading" /\ ~sse.cancel
    /\ \E kind \in {"message", "error"}, raises, closeRaises \in BOOLEAN :
          IF sse.is_closing
          THEN /\ sse' = SSELoopEnds(sse, closeRaises)
               /\ out' = NoOut
          ELSE IF kind = "error"
          THEN /\ sse' = sse
               /\ out' = IF sse.on_error THEN OnError(NoOut) ELSE NoOut
          ELSE IF ~sse.on_message
          THEN /\ sse' = sse
               /\ out' = NoOut
          ELSE IF raises
          THEN /\ sse' = SSELoopEnds(sse, closeRaises)
               /\ out' = SSEOutAfterEnd(sse, OnMessage(NoOut), TRUE)
          ELSE /\ sse' = sse
               /\ out' = OnMessage(NoOut)
    /\ SSERest

\* the stream ends, or reading it raises
SSEStreamEnd ==
    /\ sse.loop = "reading" /\ ~sse.cancel
    /\ \E e, closeRaises \in BOOLEAN :
          /\ sse' = SSELoopEnds(sse, closeRaises)
          /\ out' = SSEOutAfterEnd(sse, NoOut, e)
    /\ SSERest

\* the cancelled task runs: CancelledError is caught, the finally clause runs
SSECancelled ==
    /\ sse.cancel /\ SSERunning(sse)
    /\ \E closeRaises \in BOOLEAN : sse' = SSELoopEnds(sse, closeRaises)
    /\ out' = SSEOutAfterEnd(sse, NoOut, FALSE)
    /\ SSERest

\* send(): without an HTTP client it raises; with one the message is posted,
\* and the call returns, or raises on an error status, or the request fails
\* before anything is written
SSESend ==
    /\ sse.pc = "idle"
    /\ sse' = sse
    /\ IF ~sse.client
       THEN out' = [NoOut EXCEPT !.send = "raised"]
       ELSE \E outcome \in {"ok", "status", "fail"} :
               out' = [NoOut EXCEPT !.send = IF outcome = "ok" THEN "returned" ELSE "raised",
                                    !.written = outcome # "fail"]
    /\ SSERest

\* close() from "if self._client:" on
SSECloseClient(s) ==
    IF s.client THEN /\ sse' = [s EXCEPT !.pc = "closing"]
                     /\ out' = NoOut
    ELSE /\ sse' = [s EXCEPT !.pc = "idle"]
         /\ out' = CloseReturned(NoOut)

\* close() from "await self._sse_task" on, the task having ended: its
\* exception, if it ended with one, is raised to the caller of close()
SSECloseAfterTask(s) ==
    IF s.exc THEN /\ sse' = [s EXCEPT !.pc = "idle"]
                  /\ out' = [NoOut EXCEPT !.close_raised = TRUE]
    ELSE SSECloseClient([s EXCEPT !.sse_task = FALSE])

SSECloseStart ==
    /\ sse.pc = "idle"
    /\ IF ~sse.sse_task THEN SSECloseClient([sse EXCEPT !.is_closing = TRUE])
       ELSE IF SSERunning(sse)
       THEN /\ sse' = [sse EXCEPT !.is_closing = TRUE, !.cancel = TRUE, !.pc = "awaiting"]
            /\ out' = NoOut
       ELSE SSECloseAfterTask([sse EXCEPT !.is_closing = TRUE])
    /\ SSERest

SSECloseTaskAwaited ==
    /\ sse.pc = "awaiting" /\ ~SSERunning(sse)
    /\ SSECloseAfterTask(sse)
    /\ SSERest

\* aclose() is done: self._client = None
SSECloseFinish ==
    /\ sse.pc = "closing"
    /\ sse' = [sse EXCEPT !.client = FALSE, !.pc = "idle"]
    /\ out' = CloseReturned(NoOut)
    /\ SSERest

\* the caller of close() is cancelled (a timeout around close(), say) while
\* aclose() is awaited: CancelledError leaves close() at that line
SSECloseInterrupted ==
    /\ sse.pc = "closing"
    /\ sse' = [sse EXCEPT !.pc = "idle"]
    /\ out' = [NoOut EXCEPT !.close_raised = TRUE]
    /\ SSERest

SSENext ==
    \/ SSEConnect
    \/ SSEOpened
    \/ SSERefused
    \/ SSEEvent
    \/ SSEStreamEnd
    \/ SSECancelled
    \/ SSESend
    \/ SSECloseStart
    \/ SSECloseTaskAwaited
    \/ SSECloseFinish
    \/ SSECloseInterrupted

\* the transport as built, with the callbacks its owner has set
SSEInit ==
    /\ TransportFields
    /\ ClientFields
    /\ auto_reconnect = FALSE /\ max_reconnect_attempts = 5 /\ reconnect_delay = 1
    /\ \E m, c, e \in BOOLEAN :
          sse = [NoSSE EXCEPT !.on_message = m, !.on_close = c, !.on_error = e]
    /\ router = NoRouter /\ err = NoErr /\ ctx = NoCtx /\ handshake = NoHs
    /\ dispatch = NoDispatch /\ pages = NoPages

SSESpec == SSEInit /\ [][SSENext]_vars

\* ==================================================== the inbound router
\* _handle_message and what it calls, fed by the receive loop of the
\* transport.  A handler is one that returns ("good") or one that raises
\* ("bad").
HandlerKinds == {"good", "bad"}

\* The texts a server can send.  form: the text is not JSON ("invalid"), or
\* it is JSON for a number, for a string without or with the letters id in
\* it, for an array, or for an object.  An object has an id or not (0), a
\* method or not ("-"), params that parse as the params of the method or do
\* not, and as a response a result, a well-formed error, an error member
\* that is no well-formed error, or neither.  The id member is an integer,
\* or a value of another JSON type that spells the issued id 1: the string
\* "1", the array [1], true (which Python compares equal to 1); or null.
Text(f) == [form |-> f, id |-> 0, idtype |-> "none", method |-> "-", params |-> "ok",
            body |-> "none"]
Notification(m, p) ==
    [form |-> "object", id |-> 0, idtype |-> "none", method |-> m, params |-> p,
     body |-> "none"]
Response(i, b) ==
    [form |-> "object", id |-> i, idtype |-> "int", method |-> "-", params |-> "ok",
     body |-> b]
TypedResponse(t, b) ==
    [form |-> "object", id |-> 1, idtype |-> t, method |-> "-", params |-> "ok",
     body |-> b]
IdTypes == {"string", "null", "array", "bool"}

RouterMessages ==
    {Text(f) : f \in {"invalid", "number", "string", "string_id", "array", "object"}}
    \cup {Notification(m, p) : m \in Reserved \cup {"event/page", "page"},
                               p \in {"ok", "bad"}}
    \cup {Response(i, b) : i \in {1, 2}, b \in {"result", "error", "badError", "none"}}
    \cup {TypedResponse(t, b) : t \in IdTypes, b \in {"result", "error"}}

\* a handler invocation without its try/except
HandlerUnguarded == FALSE

\* "try: handler(...) except Exception as e: logger.error(...)"
HandlerGuarded == TRUE

\* a reserved branch without its return
ReservedFallsThrough == FALSE

\* the "return" that ends each reserved branch of _handle_notification
ReservedReturns == TRUE

FirstBad(hs) == CHOOSE i \in 1..Len(hs) : hs[i] = "bad" /\ \A j \in 1..(i - 1) : hs[j] = "good"

\* "for handler in <list>: try: handler(...)": the invocations made, and
\* whether an exception leaves the loop
HandlersEscape(hs) == ~HandlerGuarded /\ \E i \in 1..Len(hs) : hs[i] = "bad"
Invocations(reg, hs) ==
    LET n == IF HandlersEscape(hs) THEN FirstBad(hs) ELSE Len(hs)
    IN [i \in 1..n |-> [registry |-> reg, handler |-> hs[i]]]

ReservedHandlers(r, m) ==
    CASE m = "stream/chunk" -> r.stream_chunk_handlers
      [] m = "stream/end" -> r.stream_end_handlers
      [] m = "approval/required" -> r.approval_handlers

\* event_type: method.split("/")[1] after "event/", else the method
EventType(m) == IF m = "event/page" THEN "page" ELSE m

\* "if event_type in self._event_handlers: for handler in ..."
GeneralInvocations(r, m) ==
    IF EventType(m) \in EventNames
    THEN Invocations(<<"event", EventType(m)>>, r.event_handlers[EventType(m)])
    ELSE <<>>
GeneralEscapes(r, m) ==
    EventType(m) \in EventNames /\ HandlersEscape(r.event_handlers[EventType(m)])

\* _handle_notification: model_validate raises on params that do not parse
HandleNotification(r, m) ==
    IF m.method \in Reserved
    THEN IF m.params = "bad"
         THEN [NoLast EXCEPT !.escaped = TRUE]
         ELSE LET hs == ReservedHandlers(r, m.method)
                  own == Invocations(<<"reserved", m.method>>, hs)
              IN IF ReservedReturns \/ HandlersEscape(hs)
                 THEN [NoLast EXCEPT !.invoked = own, !.escaped = HandlersEscape(hs)]
                 ELSE [NoLast EXCEPT !.invoked = own \o GeneralInvocations(r, m.method),
                                     !.escaped = GeneralEscapes(r, m.method)]
    ELSE [NoLast EXCEPT !.invoked = GeneralInvocations(r, m.method),
                        !.escaped = GeneralEscapes(r, m.method)]

\* is_error_response
IsErrorResponse(m) == m.body = "error"

\* _handle_response: the future of a known id is popped and settled, with
\* the error if the envelope has a well-formed one, else with
\* data.get("result"), which is None when there is no result member
\* "request_id not in self._pending_requests": the keys are integers; a
\* string or None is equal to none of them, True is equal to 1, and a list
\* cannot be hashed, so that the test raises TypeError
IdUnhashable(m) == m.idtype = "array"
IdInTable(r, m) == m.idtype \in {"int", "bool"} /\ m.id \in r.pending
SettlesPending(r, m) == IdInTable(r, m) /\ r.fut = "pending"
FutAfterResponse(r, m) ==
    IF SettlesPending(r, m) THEN (IF IsErrorResponse(m) THEN "error" ELSE "result")
    ELSE r.fut
PendingAfterRouterResponse(r, m) ==
    IF IdInTable(r, m) THEN r.pending \ {m.id} ELSE r.pending

\* _handle_message up to the branch: json.loads raises JSONDecodeError, which
\* is caught; '"id" in data' raises TypeError on a number, is a substring
\* test on a string and a membership test on an array
RouterRaisesEarly(m) == m.form \in {"number", "string_id"}
RouterDrops(m) ==
    \/ m.form \in {"invalid", "string", "array"}
    \/ m.form = "object" /\ m.id = 0 /\ m.method = "-"

\* _handle_message(m) on the router r
HandleMessage(r, m) ==
    IF RouterDrops(m) THEN [r EXCEPT !.last = [NoLast EXCEPT !.msg = m]]
    ELSE IF RouterRaisesEarly(m)
    THEN [r EXCEPT !.last = [NoLast EXCEPT !.msg = m, !.escaped = TRUE]]
    ELSE IF m.id # 0 /\ IdUnhashable(m)
    THEN [r EXCEPT !.last = [NoLast EXCEPT !.msg = m, !.escaped = TRUE]]
    ELSE IF m.id # 0
    THEN [r EXCEPT !.pending = PendingAfterRouterResponse(r, m),
                   !.fut = FutAfterResponse(r, m),
                   !.last = [NoLast EXCEPT !.msg = m, !.settled = SettlesPending(r, m)]]
    ELSE [r EXCEPT !.last = [HandleNotification(r, m) EXCEPT !.msg = m]]

\* _receive_loop around on_message: an exception of the callback is caught
\* by "except Exception", reported to on_error, and the loop is over
AfterOnMessage(r) ==
    IF r.last.escaped THEN [r EXCEPT !.loop = "ended", !.errors = @ + 1] ELSE r

RouterRest ==
    UNCHANGED <<transportVars, request_id, pending, clientVars, calls, ncalls,
                connVars, closePc, reconnVars, sse, err, ctx, handshake,
                dispatch, pages, out>>

\* on_stream_chunk / on_stream_end / on_approval_required
RegisterReserved(m, h) ==
    /\ router.nhandlers < MaxHandlers
    /\ router' =
         [[router EXCEPT !.nhandlers = @ + 1, !.last = NoLast]
            EXCEPT !.stream_chunk_handlers = IF m = "stream/chunk" THEN Append(@, h) ELSE @,
                   !.stream_end_handlers = IF m = "stream/end" THEN Append(@, h) ELSE @,
                   !.approval_handlers = IF m = "approval/required" THEN Append(@, h) ELSE @]
    /\ RouterRest

\* on(event, handler)
RegisterEvent(e, h) ==
    /\ router.nhandlers < MaxHandlers
    /\ router' = [router EXCEPT !.nhandlers = @ + 1, !.last = NoLast,
                                !.event_handlers[e] = Append(@, h)]
    /\ RouterRest

\* the receive loop reads one text frame
RouterReceive(m) ==
    /\ router.loop = "reading"
    /\ router' = AfterOnMessage(HandleMessage(router, m))
    /\ RouterRest

\* _handle_close, called by the transport when the loop is over
RouterClose ==
    /\ router.loop = "reading"
    /\ router' = [router EXCEPT
                    !.loop = "ended",
                    !.last = [NoLast EXCEPT
                                !.msg = Text("close"),
                                !.invoked = Invocations(<<"event", "close">>,
                                                        router.event_handlers["close"]),
                                !.escaped = HandlersEscape(router.event_handlers["close"])]]
    /\ RouterRest

RouterNext ==
    \/ \E m \in Reserved, h \in HandlerKinds : RegisterReserved(m, h)
    \/ \E e \in EventNames, h \in HandlerKinds : RegisterEvent(e, h)
    \/ \E m \in RouterMessages : RouterReceive(m)
    \/ RouterClose

RouterSpec == Init /\ [][RouterNext]_vars

\* ======================================================== the error mapper
\* errors.py: the constructors of the typed errors, create_error_from_code,
\* BAPError.to_dict and BAPError.from_dict.  A message is the one passed in
\* ("m") or a text the constructor composes ("composed").
Truthy(v) == v \notin {"none", "falsy"}

HasKey(d, k) == \E p \in d.items : p[1] = k
\* "details.get(k, dflt) if details else dflt": an empty dict is false
Get(d, k, dflt) ==
    IF d.present /\ HasKey(d, k) THEN (CHOOSE p \in d.items : p[1] = k)[2] ELSE dflt

BAPParseError(m) == BAPError("BAPParseError", ParseError, m, FALSE, NoneMs, NoDetails)
BAPMethodNotFoundError(method) ==
    BAPError("BAPMethodNotFoundError", MethodNotFound, "composed", FALSE, NoneMs, NoDetails)
BAPNotInitializedError ==
    BAPError("BAPNotInitializedError", NotInitialized, "composed", FALSE, NoneMs, NoDetails)
BAPAlreadyInitializedError ==
    BAPError("BAPAlreadyInitializedError", AlreadyInitialized, "composed", FALSE, NoneMs,
             NoDetails)
BAPBrowserNotLaunchedError ==
    BAPError("BAPBrowserNotLaunchedError", BrowserNotLaunched, "composed", FALSE, NoneMs,
             NoDetails)
BAPPageNotFoundError(page_id) ==
    BAPError("BAPPageNotFoundError", PageNotFound, "composed", FALSE, NoneMs,
             Dict({<<"pageId", page_id>>}))
BAPElementNotFoundError(selector, retryable, retry_after_ms) ==
    BAPError("BAPElementNotFoundError", ElementNotFound, "composed", retryable,
             retry_after_ms, Dict({<<"selector", selector>>}))
BAPElementNotVisibleError(selector) ==
    BAPError("BAPElementNotVisibleError", ElementNotVisible, "composed", TRUE, 500,
             Dict({<<"selector", selector>>}))
BAPElementNotEnabledError(selector) ==
    BAPError("BAPElementNotEnabledError", ElementNotEnabled, "composed", TRUE, 500,
             Dict({<<"selector", selector>>}))
BAPSelectorAmbiguousError(selector, count) ==
    BAPError("BAPSelectorAmbiguousError", SelectorAmbiguous, "composed", FALSE, NoneMs,
             Dict({<<"selector", selector>>, <<"count", count>>}))
\* "details or None": an empty dict becomes None
BAPNavigationError(m, url, status, retryable) ==
    LET items == (IF Truthy(url) THEN {<<"url", url>>} ELSE {})
                 \cup (IF Truthy(status) THEN {<<"status", status>>} ELSE {})
    IN BAPError("BAPNavigationError", NavigationFailed, m, retryable, 1000,
                IF items = {} THEN NoDetails ELSE Dict(items))
BAPTimeoutError(m, timeout) ==
    BAPError("BAPTimeoutError", Timeout, m, TRUE, 0,
             IF Truthy(timeout) THEN Dict({<<"timeout", timeout>>}) ELSE NoDetails)
BAPActionError(action, m, selector, retryable) ==
    BAPError("BAPActionError", ActionFailed, "composed", retryable, NoneMs,
             Dict({<<"action", action>>}
                  \cup (IF Truthy(selector) THEN {<<"selector", selector>>} ELSE {})))
BAPTargetClosedError(target) ==
    BAPError("BAPTargetClosedError", TargetClosed, "composed", FALSE, NoneMs, NoDetails)
BAPExecutionContextDestroyedError ==
    BAPError("BAPExecutionContextDestroyedError", ExecutionContextDestroyed, "composed",
             TRUE, 100, NoDetails)
BAPContextNotFoundError(context_id) ==
    BAPError("BAPContextNotFoundError", ContextNotFound, "composed", FALSE, NoneMs,
             Dict({<<"contextId", context_id>>}))
BAPResourceLimitExceededError(resource, limit, current) ==
    BAPError("BAPResourceLimitExceededError", ResourceLimitExceeded, "composed", FALSE,
             NoneMs,
             Dict({<<"resource", resource>>, <<"limit", limit>>, <<"current", current>>}))
BAPApprovalDeniedError(reason, rule) ==
    BAPError("BAPApprovalDeniedError", ApprovalDenied, "composed", FALSE, NoneMs,
             IF Truthy(rule) \/ Truthy(reason)
             THEN Dict({<<"rule", rule>>, <<"reason", reason>>}) ELSE NoDetails)
BAPApprovalTimeoutError(timeout) ==
    BAPError("BAPApprovalTimeoutError", ApprovalTimeout, "composed", TRUE, NoneMs,
             Dict({<<"timeout", timeout>>}))
BAPApprovalRequiredError(approval_id, rule) ==
    BAPError("BAPApprovalRequiredError", ApprovalRequired, "composed", FALSE, NoneMs,
             Dict({<<"requestId", approval_id>>, <<"rule", rule>>}))
BAPFrameNotFoundError(identifier) ==
    BAPError("BAPFrameNotFoundError", FrameNotFound, "composed", FALSE, NoneMs,
             IF Truthy(identifier) THEN Dict({<<"identifier", identifier>>}) ELSE NoDetails)
BAPDomainNotAllowedError(domain) ==
    BAPError("BAPDomainNotAllowedError", DomainNotAllowed, "composed", FALSE, NoneMs,
             Dict({<<"domain", domain>>}))
BAPStreamNotFoundError(stream_id) ==
    BAPError("BAPStreamNotFoundError", StreamNotFound, "composed", FALSE, NoneMs,
             Dict({<<"streamId", stream_id>>}))
BAPStreamCancelledError(stream_id) ==
    BAPError("BAPStreamCancelledError", StreamCancelled, "composed", FALSE, NoneMs,
             Dict({<<"streamId", stream_id>>}))

\* the codes create_error_from_code builds a specialized error for: those of
\* error_classes that have a branch of their own (InvalidRequest and
\* InvalidParams are in the dict and have none) and those of the second chain
WellKnownCodes ==
    {ParseError, MethodNotFound, NotInitialized, AlreadyInitialized, BrowserNotLaunched,
     Timeout, TargetClosed, ExecutionContextDestroyed, ApprovalDenied, FrameNotFound,
     StreamNotFound, StreamCancelled, PageNotFound, ElementNotFound, ElementNotVisible,
     ElementNotEnabled, SelectorAmbiguous, NavigationFailed, ActionFailed,
     ContextNotFound, ResourceLimitExceeded, ApprovalTimeout, ApprovalRequired,
     DomainNotAllowed}

\* the default of create_error_from_code, with the details left out
GenericWithoutDetails(code, m, r, ms, d) == BAPError("BAPError", code, m, r, ms, NoDetails)

\* "return BAPError(code, message, retryable=..., retry_after_ms=..., details=...)"
Generic(code, m, r, ms, d) == BAPError("BAPError", code, m, r, ms, d)

\* "retry_after_ms or 500"
OrDefault(ms, dflt) == IF ms = NoneMs \/ ms = 0 THEN dflt ELSE ms

CreateErrorFromCode(code, m, r, ms, d) ==
    CASE code = ParseError -> BAPParseError(m)
      [] code = MethodNotFound -> BAPMethodNotFoundError(m)
      [] code = NotInitialized -> BAPNotInitializedError
      [] code = AlreadyInitialized -> BAPAlreadyInitializedError
      [] code = BrowserNotLaunched -> BAPBrowserNotLaunchedError
      [] code = Timeout -> BAPTimeoutError(m, Get(d, "timeout", "none"))
      [] code = TargetClosed -> BAPTargetClosedError(Get(d, "target", "target"))
      [] code = ExecutionContextDestroyed -> BAPExecutionContextDestroyedError
      [] code = ApprovalDenied ->
            BAPApprovalDeniedError(Get(d, "reason", "none"), Get(d, "rule", "none"))
      [] code = FrameNotFound -> BAPFrameNotFoundError(Get(d, "identifier", "none"))
      [] code = StreamNotFound -> BAPStreamNotFoundError(Get(d, "streamId", "unknown"))
      [] code = StreamCancelled -> BAPStreamCancelledError(Get(d, "streamId", "unknown"))
      [] code = PageNotFound -> BAPPageNotFoundError(Get(d, "pageId", "unknown"))
      [] code = ElementNotFound ->
            BAPElementNotFoundError(Get(d, "selector", "none"), r, OrDefault(ms, 500))
      [] code = ElementNotVisible -> BAPElementNotVisibleError(Get(d, "selector", "none"))
      [] code = ElementNotEnabled -> BAPElementNotEnabledError(Get(d, "selector", "none"))
      [] code = SelectorAmbiguous ->
            BAPSelectorAmbiguousError(Get(d, "selector", "none"), Get(d, "count", "zero"))
      [] code = NavigationFailed ->
            BAPNavigationError(m, Get(d, "url", "none"), Get(d, "status", "none"), r)
      [] code = ActionFailed ->
            BAPActionError(Get(d, "action", "action"), m, Get(d, "selector", "none"), r)
      [] code = ContextNotFound -> BAPContextNotFoundError(Get(d, "contextId", "unknown"))
      [] code = ResourceLimitExceeded ->
            BAPResourceLimitExceededError(Get(d, "resource", "resource"),
                                          Get(d, "limit", "zero"), Get(d, "current", "zero"))
      [] code = ApprovalTimeout -> BAPApprovalTimeoutError(Get(d, "timeout", "60000"))
      [] code = ApprovalRequired ->
            BAPApprovalRequiredError(Get(d, "requestId", "unknown"), Get(d, "rule", "unknown"))
      [] code = DomainNotAllowed -> BAPDomainNotAllowedError(Get(d, "domain", "unknown"))
      [] OTHER -> Generic(code, m, r, ms, d)

\* BAPError.to_dict: retryAfterMs and details are members of data only when
\* they are not None
ToDict(e) ==
    [code |-> e.code, message |-> e.message,
     data |-> [retryable |-> e.retryable,
               hasRetryAfterMs |-> e.retry_after_ms # NoneMs,
               retryAfterMs |-> e.retry_after_ms,
               hasDetails |-> e.details.present,
               details |-> e.details]]

\* BAPError.from_dict on a dict that has code, message and data
FromDictOf(w) ==
    CreateErrorFromCode(w.code, w.message, w.data.retryable,
                        IF w.data.hasRetryAfterMs THEN w.data.retryAfterMs ELSE NoneMs,
                        IF w.data.hasDetails THEN w.data.details ELSE NoDetails)

\* the arguments the mapper is applied to
OtherCodes == {-32099, 1}
Codes == WellKnownCodes \cup {InvalidRequest, InvalidParams, InternalError, ServerError,
                              InterceptedRequest} \cup OtherCodes

\* the keys of details the error of a code is built from
OwnKeys(code) ==
    CASE code = Timeout -> {"timeout"}
      [] code = TargetClosed -> {"target"}
      [] code = ApprovalDenied -> {"reason", "rule"}
      [] code = FrameNotFound -> {"identifier"}
      [] code \in {StreamNotFound, StreamCancelled} -> {"streamId"}
      [] code = PageNotFound -> {"pageId"}
      [] code \in {ElementNotFound, ElementNotVisible, ElementNotEnabled} -> {"selector"}
      [] code = SelectorAmbiguous -> {"selector", "count"}
      [] code = NavigationFailed -> {"url", "status"}
      [] code = ActionFailed -> {"action", "selector"}
      [] code = ContextNotFound -> {"contextId"}
      [] code = ResourceLimitExceeded -> {"resource", "limit", "current"}
      [] code = ApprovalTimeout -> {"timeout"}
      [] code = ApprovalRequired -> {"requestId", "rule"}
      [] code = DomainNotAllowed -> {"domain"}
      [] OTHER -> {}

DetailsInputs(code) ==
    {NoDetails, Dict({}),
     Dict({<<k, "v">> : k \in OwnKeys(code)}),
     Dict({<<k, "falsy">> : k \in OwnKeys(code)}),
     Dict({<<"extra", "v">>}),
     Dict({<<k, "v">> : k \in OwnKeys(code)} \cup {<<"extra", "v">>})}

RetryAfterInputs == {NoneMs, 0, 250}

ErrorInputs ==
    {BAPError("BAPError", c, "m", r, ms, d) : c \in Codes, r \in BOOLEAN, ms \in RetryAfterInputs,
                                  d \in UNION {DetailsInputs(k) : k \in Codes}}

ErrRest ==
    UNCHANGED <<transportVars, request_id, pending, clientVars, calls, ncalls,
                connVars, closePc, reconnVars, sse, router, ctx, handshake,
                dispatch, pages, out>>

\* create_error_from_code(code, message, retryable=, retry_after_ms=, details=)
CreateError(i) ==
    /\ err.stage = "input"
    /\ i.details \in DetailsInputs(i.code)
    /\ err' = [err EXCEPT !.stage = "created", !.i = i,
                          !.e = CreateErrorFromCode(i.code, i.message, i.retryable,
                                                    i.retry_after_ms, i.details)]
    /\ ErrRest

\* BAPError(code, message, retryable=, retry_after_ms=, details=)
ConstructError(i) ==
    /\ err.stage = "input"
    /\ i.details \in DetailsInputs(i.code)
    /\ err' = [err EXCEPT !.stage = "constructed", !.i = i, !.e = i]
    /\ ErrRest

\* BAPError.from_dict(e.to_dict())
RoundTrip ==
    /\ err.stage \in {"created", "constructed"}
    /\ err' = [err EXCEPT !.stage = "mapped:" \o err.stage, !.back = FromDictOf(ToDict(err.e))]
    /\ ErrRest

ErrNext ==
    \/ \E i \in ErrorInputs : CreateError(i)
    \/ \E i \in ErrorInputs : ConstructError(i)
    \/ RoundTrip

ErrSpec == Init /\ [][ErrNext]_vars

\* ====================================================== bap_client
\* context.py: the generator behind "async with bap_client(...) as client".
\* The client's connect(), launch() and close() are taken by their outcomes:
\* what each leaves in _transport and _initialized when it returns or raises.
Browsers == {"none", "chromium", "firefox", "webkit"}
Headless == {"none", "true", "false"}

\* How connect() can raise, with what it leaves behind: transport.connect()
\* refused (the session exists, no socket); the initialize request failed or
\* the major version differs (socket open, _initialized not yet set); the
\* initialized notification, the subscription or the validation of the
\* result failed (_initialized already set)
ConnectFailures ==
    {[error |-> "Exception: refused", transport |-> "session", initialized |-> FALSE],
     [error |-> "BAPError: initialize", transport |-> "open", initialized |-> FALSE],
     [error |-> "BAPError: version mismatch", transport |-> "open", initialized |-> FALSE],
     [error |-> "BAPError: subscribe", transport |-> "open", initialized |-> TRUE],
     [error |-> "Exception: send", transport |-> "closed", initialized |-> TRUE]}

\* launch(): _request("browser/launch") raised, or model_validate did
LaunchErrors == {"BAPError: launch", "BAPTimeoutError", "ValidationError"}

\* what the body of the with block can raise into the generator
BodyErrors == {"BodyError", "CancelledError"}

\* a generator whose try block covers the yield only
InTryBodyOnly(pc) == pc = "body"

\* "try:" spans connect(), launch() and the yield
InTry(pc) == pc \in {"connect", "launch", "body"}

\* an exception e leaves statement at: into the finally clause when the
\* statement is inside the try block, out of the generator otherwise
CtxRaise(c, at, e) ==
    IF InTry(at)
    THEN [c EXCEPT !.pc = "finally", !.error = e, !.failed_at = at]
    ELSE [c EXCEPT !.pc = "exited", !.error = e, !.failed_at = at, !.raised = e]

CtxRest ==
    UNCHANGED <<transportVars, request_id, pending, clientVars, calls, ncalls,
                connVars, closePc, reconnVars, sse, router, err, handshake,
                dispatch, pages, out>>

\* bap_client(url, browser=b, headless=h) is entered: the client is built
\* and connect() is awaited
CtxEnter(b, h) ==
    /\ ctx.pc = "idle"
    /\ ctx' = [ctx EXCEPT !.pc = "connect", !.browser = b, !.headless = h]
    /\ CtxRest

\* connect() returned; "if browser is not None" decides whether launch()
\* is awaited before the client is yielded
CtxConnectReturns ==
    /\ ctx.pc = "connect"
    /\ ctx' = [ctx EXCEPT !.transport = "open", !.initialized = TRUE,
                          !.pc = IF ctx.browser # "none" THEN "launch" ELSE "body",
                          !.entered = ctx.browser = "none"]
    /\ CtxRest

CtxConnectRaises(f) ==
    /\ ctx.pc = "connect"
    /\ ctx' = CtxRaise([ctx EXCEPT !.transport = f.transport,
                                   !.initialized = f.initialized],
                       "connect", f.error)
    /\ CtxRest

\* the server closes the socket while the launch or the body is under way
CtxServerCloses ==
    /\ ctx.pc \in {"launch", "body"}
    /\ ctx.transport = "open"
    /\ ctx' = [ctx EXCEPT !.transport = "closed"]
    /\ CtxRest

\* launch() returned: "yield client"
CtxLaunchReturns ==
    /\ ctx.pc = "launch"
    /\ ctx.transport = "open"
    /\ ctx' = [ctx EXCEPT !.pc = "body", !.entered = TRUE]
    /\ CtxRest

CtxLaunchRaises(e) ==
    /\ ctx.pc = "launch"
    /\ ctx' = CtxRaise(ctx, "launch", e)
    /\ CtxRest

\* the body ends: the generator is resumed after the yield
CtxBodyReturns ==
    /\ ctx.pc = "body"
    /\ ctx' = [ctx EXCEPT !.pc = "finally"]
    /\ CtxRest

\* the body raises: the exception is thrown into the generator at the yield
CtxBodyRaises(e) ==
    /\ ctx.pc = "body"
    /\ ctx' = CtxRaise(ctx, "body", e)
    /\ CtxRest

\* "finally: await client.close()".  close() with _initialized set asks
\* the server to shut down first and swallows whatever that raises (on a
\* socket that is not open the write raises at once); then it awaits
\* transport.close()
CtxCloseStart ==
    /\ ctx.pc = "finally"
    /\ ctx' = [ctx EXCEPT !.closes = @ + 1,
                          !.shutdown = ctx.initialized,
                          !.pc = IF ctx.initialized /\ ctx.transport = "open"
                                 THEN "shutdown" ELSE "transport_close"]
    /\ CtxRest

\* the shutdown request is settled: a result, an error or the timeout,
\* all the same to close(); or the socket is lost and the timeout ends it
CtxShutdownSettled ==
    /\ ctx.pc = "shutdown"
    /\ \E t \in {"open", "closed"} :
          ctx' = [ctx EXCEPT !.pc = "transport_close", !.transport = t]
    /\ CtxRest

\* transport.close() returned, close() runs to its end and the generator
\* leaves the finally clause: with the exception in flight, or by returning
CtxCloseReturns ==
    /\ ctx.pc = "transport_close"
    /\ ctx' = [ctx EXCEPT !.transport = "none", !.initialized = FALSE,
                          !.pc = "exited", !.raised = ctx.error]
    /\ CtxRest

CtxNext ==
    \/ \E b \in Browsers, h \in Headless : CtxEnter(b, h)
    \/ CtxConnectReturns
    \/ \E f \in ConnectFailures : CtxConnectRaises(f)
    \/ CtxServerCloses
    \/ CtxLaunchReturns
    \/ \E e \in LaunchErrors : CtxLaunchRaises(e)
    \/ CtxBodyReturns
    \/ \E e \in BodyErrors : CtxBodyRaises(e)
    \/ CtxCloseStart
    \/ CtxShutdownSettled
    \/ CtxCloseReturns

CtxSpec == Init /\ [][CtxNext]_vars

\* ================================================= connect(): the wire
\* client.py: BAPClient.__init__ and connect(), one client followed from
\* its construction to the end of connect(), with the order of what it
\* puts on the wire and what it records.
DefaultEvents == <<"page", "console", "network", "dialog">>

\* the events argument: None, or a list
EventArguments ==
    {NoEvents} \cup {[given |-> TRUE, list |-> l] :
                        l \in {<<>>, <<"page">>, <<"page", "dialog">>}}

\* self._events = events or ["page", "console", "network", "dialog"]:
\* None and the empty list are both false
EventsOrDefault(a) == IF a.given /\ a.list # <<>> THEN a.list ELSE DefaultEvents

HsRest ==
    UNCHANGED <<transportVars, request_id, pending, clientVars, calls, ncalls,
                connVars, closePc, reconnVars, sse, router, err, ctx,
                dispatch, pages, out>>

Wire(h, e) == [h EXCEPT !.wire = Append(@, e)]

\* BAPClient(url, events=a)
HsConstruct(a) ==
    /\ handshake.pc = "idle"
    /\ handshake' = [handshake EXCEPT !.pc = "new", !.requested = a, !.events = EventsOrDefault(a)]
    /\ HsRest

\* connect(): "await self._transport.connect()"
HsConnect ==
    /\ handshake.pc = "new"
    /\ handshake' = [handshake EXCEPT !.pc = "opening"]
    /\ HsRest

\* the channel is open and _request("initialize") starts to write
HsOpened ==
    /\ handshake.pc = "opening"
    /\ handshake' = [Wire(handshake, "opened") EXCEPT !.pc = "sending initialize"]
    /\ HsRest

\* the channel is refused, or a write raises, or a request is answered
\* with an error or times out: connect() raises
HsRaises ==
    /\ handshake.pc \in {"opening", "sending initialize", "awaiting initialize",
                  "sending initialized", "sending subscribe", "awaiting subscribe"}
    /\ handshake' = [handshake EXCEPT !.pc = "raised"]
    /\ HsRest

HsInitializeSent ==
    /\ handshake.pc = "sending initialize"
    /\ handshake' = [Wire(handshake, "initialize") EXCEPT !.pc = "awaiting initialize"]
    /\ HsRest

\* the initialize result p arrives and connect() is resumed: the version
\* check, then _initialized and _server_capabilities, then _notify starts
HsInitializeResult(p) ==
    /\ handshake.pc = "awaiting initialize"
    /\ handshake' = IF MajorMismatch(p)
             THEN [Wire(handshake, "response") EXCEPT !.pc = "raised", !.payload = p]
             ELSE [Wire(Wire(handshake, "response"), "connected") EXCEPT
                      !.pc = "sending initialized", !.payload = p,
                      !.initialized = TRUE, !.capabilities = CapabilitiesOf(p)]
    /\ HsRest

\* the notification is written; "if self._events:" decides whether
\* _request("events/subscribe") follows, else the result is validated and
\* returned
HsInitializedSent ==
    /\ handshake.pc = "sending initialized"
    /\ handshake' = [Wire(handshake, "initialized") EXCEPT
                !.pc = IF handshake.events # <<>> THEN "sending subscribe"
                       ELSE IF ValidInitializeResult(handshake.payload) THEN "returned"
                       ELSE "raised"]
    /\ HsRest

HsSubscribeSent ==
    /\ handshake.pc = "sending subscribe"
    /\ handshake' = [Wire(handshake, "subscribe") EXCEPT !.pc = "awaiting subscribe"]
    /\ HsRest

\* the subscription is confirmed: InitializeResult.model_validate(result)
HsSubscribeResult ==
    /\ handshake.pc = "awaiting subscribe"
    /\ handshake' = [handshake EXCEPT
                       !.pc = IF ValidInitializeResult(handshake.payload)
                              THEN "returned" ELSE "raised"]
    /\ HsRest

HsNext ==
    \/ \E a \in EventArguments : HsConstruct(a)
    \/ HsConnect
    \/ HsOpened
    \/ HsRaises
    \/ HsInitializeSent
    \/ \E p \in Payloads \ {"page"} : HsInitializeResult(p)
    \/ HsInitializedSent
    \/ HsSubscribeSent
    \/ HsSubscribeResult

HandshakeSpec == Init /\ [][HsNext]_vars

\* ============================================ dispatch to a handler list
\* client.py: on_stream_chunk / on_stream_end / on_approval_required / on
\* append the handler to a list and return "lambda: <list>.remove(handler)";
\* _handle_notification runs "for handler in <list>:" over that same list.
\* What a handler does when it is called: nothing to the list ("plain"),
\* call the disposer of handler number target ("dispose"), or register one
\* more handler ("register").
HandlerIds == 1..MaxHandlers
Behaviours ==
    {[kind |-> k, target |-> 0] : k \in {"plain", "register"}}
    \cup {[kind |-> "dispose", target |-> t] : t \in HandlerIds}

Handler(n, b) == [id |-> n, kind |-> b.kind, target |-> b.target]

\* the four lists _handle_notification iterates
Categories == Reserved \cup {"page"}

Ids(l) == [i \in 1..Len(l) |-> l[i].id]

\* list.remove(handler): the first equal element is taken out; when there
\* is none ValueError is raised, which the try/except around the handler
\* call catches
Remove(l, n) ==
    IF \E i \in 1..Len(l) : l[i].id = n
    THEN LET k == CHOOSE i \in 1..Len(l) : l[i].id = n /\ \A j \in 1..(i - 1) : l[j].id # n
         IN  [i \in 1..(Len(l) - 1) |-> IF i < k THEN l[i] ELSE l[i + 1]]
    ELSE l

\* the list after handler h has run
HandlersAfter(d, h) ==
    CASE h.kind = "dispose" -> Remove(d.handlers, h.target)
      [] h.kind = "register" ->
            Append(d.handlers, Handler(d.nid + 1, [kind |-> "plain", target |-> 0]))
      [] OTHER -> d.handlers

DispatchRest ==
    UNCHANGED <<transportVars, request_id, pending, clientVars, calls, ncalls,
                connVars, closePc, reconnVars, sse, router, err, ctx, handshake,
                pages, out>>

\* a handler is registered before the message arrives
DispatchRegister(b) ==
    /\ dispatch.pc = "registering"
    /\ dispatch.nid < MaxHandlers
    /\ dispatch' = [dispatch EXCEPT
                      !.handlers = Append(@, Handler(dispatch.nid + 1, b)),
                      !.nid = @ + 1]
    /\ DispatchRest

\* a notification of category c arrives: the for loop takes an iterator of
\* the list
DispatchArrive(c) ==
    /\ dispatch.pc = "registering"
    /\ dispatch' = [dispatch EXCEPT !.pc = "dispatching", !.category = c,
                                    !.arrived = Ids(dispatch.handlers), !.idx = 1]
    /\ DispatchRest

\* the iterator yields the element at its position of the list as it is
\* now, and that handler runs
DispatchInvoke ==
    /\ dispatch.pc = "dispatching"
    /\ dispatch.idx <= Len(dispatch.handlers)
    /\ LET h == dispatch.handlers[dispatch.idx]
       IN  dispatch' = [dispatch EXCEPT
                          !.invoked = Append(@, h.id),
                          !.handlers = HandlersAfter(dispatch, h),
                          !.nid = IF h.kind = "register" THEN @ + 1 ELSE @,
                          !.idx = @ + 1]
    /\ DispatchRest

\* the position is past the end of the list: the loop is over
DispatchEnd ==
    /\ dispatch.pc = "dispatching"
    /\ dispatch.idx > Len(dispatch.handlers)
    /\ dispatch' = [dispatch EXCEPT !.pc = "done"]
    /\ DispatchRest

DispatchNext ==
    \/ \E b \in Behaviours : DispatchRegister(b)
    \/ \E c \in Categories : DispatchArrive(c)
    \/ DispatchInvoke
    \/ DispatchEnd

DispatchSpec == Init /\ [][DispatchNext]_vars

\* ===================================== close() during a connect() in flight
\* One connect() on a new client, already suspended in ws_connect, and one
\* close() called by another task before connect() has ended.  The steps of
\* connect(), of the receive loop, of the timers and of close() are those
\* of the session above.
RaceInit ==
    /\ ws = "none" /\ session = TRUE /\ is_closing = FALSE
    /\ receive_task = "none" /\ orphans = 0
    /\ reconnect_attempts = 0 /\ is_reconnecting = FALSE
    /\ loops = [l \in LoopIds |-> NoLoop] /\ nloops = 0
    /\ request_id = 0 /\ pending = {}
    /\ initialized = FALSE /\ capabilities = "none" /\ active_page = "none"
    /\ calls = [c \in CallIds |-> NoCall] /\ ncalls = 0
    /\ connPc = "opening" /\ connPayload = "-"
    /\ closePc = "idle"
    /\ out = NoOut
    /\ AuxFields
    /\ auto_reconnect = FALSE /\ max_reconnect_attempts = 5 /\ reconnect_delay = 1

\* close() has not been called yet (_is_closing is set by nothing else)
CloseNotCalled == closePc = "idle" /\ ~is_closing

\* ws_connect returns a socket: only on a session that is not being closed
\* (a closed aiohttp session refuses the connection in progress)
RaceConnectOpened == CloseNotCalled /\ ConnectOpened

\* close() is called while connect() awaits ws_connect: nothing is
\* initialized, there is no task and no socket, the session is closed
RaceCloseWhileOpening ==
    /\ connPc = "opening" /\ CloseNotCalled
    /\ EnterTransportClose(calls, pending)
    /\ UNCHANGED <<request_id, ncalls, connVars>>
    /\ UNCHANGED <<reconnVars, auxVars>>

\* close() is called while connect() is suspended after the channel opened
RaceCloseStart ==
    /\ connPc \in {"handshake", "notifying", "subscribing"} /\ CloseNotCalled
    /\ CloseStart

RaceNext ==
    \/ RaceConnectOpened
    \/ ConnectRefused
    \/ \E c \in CallIds : ConnectSendDone(c)
    \/ \E c \in CallIds : ConnectSendFail(c)
    \/ \E c \in CallIds : ConnectHandshakeResume(c)
    \/ ConnectNotifyDone
    \/ ConnectNotifyFail
    \/ \E c \in CallIds : ConnectSubscribeResume(c)
    \/ ReceiveResponse
    \/ ReceiveEnd
    \/ \E c \in CallIds : OnTimeout(c)
    \/ RaceCloseWhileOpening
    \/ RaceCloseStart
    \/ \E c \in CallIds : CloseSendDone(c)
    \/ \E c \in CallIds : CloseSendFail(c)
    \/ \E c \in CallIds : CloseResume(c)
    \/ CloseTaskCancelled
    \/ CloseTaskAwaited
    \/ CloseFinish

RaceSpec == RaceInit /\ [][RaceNext]_vars

\* ================================================= the active page
\* client.py: create_page, close_page and activate_page, each on top of
\* _request.  A page id is a string; "none" stands for None, and None and
\* the empty string are both false.
MaxPageCalls == 2    \* page calls made on one client

PageIds == {"p1", "p2"}
\* the page_id argument of close_page: left out, empty, or the id of a page
ClosePageArguments == {"none", ""} \cup PageIds
\* the id in the result of page/create
CreatedIds == PageIds \cup {""}
\* the result of a response: for page/create an object Page.model_validate
\* accepts, with its id, or one it refuses; nothing is read of the others
NoPayload == [valid |-> FALSE, id |-> "none"]
PageResults(method) ==
    IF method = "page/create"
    THEN {[valid |-> TRUE, id |-> i] : i \in CreatedIds} \cup {NoPayload}
    ELSE {NoPayload}

PageFalse(v) == v \in {"none", ""}

\* pid = page_id or self._active_page
Pid(page_id, a) == IF PageFalse(page_id) THEN a ELSE page_id

\* self._active_page = page.id
ActivePageAfterCreate(a, page) == page.id

\* the assignment of close_page left out of its condition
ActivePageClearedAlways(a, pid) == "none"

\* if self._active_page == pid: self._active_page = None
ActivePageAfterClose(a, pid) == IF a = pid THEN "none" ELSE a

\* self._active_page = page_id
ActivePageAfterActivate(a, page_id) == page_id

\* a page call: arg is its page_id argument, pid the page id in its request,
\* pc where its coroutine is, fut the future of its _request, val the result
\* the future holds, raised the exception the call ended with
PageCall(method, arg, pid) ==
    [method |-> method, arg |-> arg, pid |-> pid, pc |-> "sending",
     fut |-> "pending", val |-> NoPayload, raised |-> "-"]

PageRest ==
    UNCHANGED <<transportVars, request_id, pending, clientVars, calls, ncalls,
                connVars, closePc, reconnVars, sse, router, err, ctx, handshake,
                dispatch, out>>

\* the call runs from "return await future" to its end with the future done:
\* an exception of the future ends it; a result goes through the statements
\* after _request
PagesAfterFuture(pg, c) ==
    LET call == pg.calls[c]
        Ends(a, pc, e) ==
            [pg EXCEPT !.active = a, !.calls[c].pc = pc, !.calls[c].raised = e]
    IN  CASE call.fut # "result" -> Ends(pg.active, "raised", call.fut)
          [] call.method = "page/create" /\ ~call.val.valid ->
                Ends(pg.active, "raised", "validation")
          [] call.method = "page/create" ->
                Ends(ActivePageAfterCreate(pg.active, call.val), "returned", "-")
          [] call.method = "page/close" ->
                Ends(ActivePageAfterClose(pg.active, call.pid), "returned", "-")
          [] OTHER ->
                Ends(ActivePageAfterActivate(pg.active, call.arg), "returned", "-")

\* _request up to "await self._transport.send(...)": the request is handed
\* to the transport
PagesAfterRequest(pg, call) ==
    [pg EXCEPT !.calls = Append(@, call),
               !.sent = Append(@, [method |-> call.method, pageId |-> call.pid])]

create_page ==
    /\ Len(pages.calls) < MaxPageCalls
    /\ pages' = PagesAfterRequest(pages, PageCall("page/create", "none", "none"))
    /\ PageRest

activate_page(page_id) ==
    /\ Len(pages.calls) < MaxPageCalls
    /\ pages' = PagesAfterRequest(pages, PageCall("page/activate", page_id, page_id))
    /\ PageRest

\* without a page id and without an active page the call raises
\* BAPPageNotFoundError before _request
close_page(page_id) ==
    /\ Len(pages.calls) < MaxPageCalls
    /\ LET pid == Pid(page_id, pages.active)
       IN  pages' =
             IF PageFalse(pid)
             THEN [pages EXCEPT !.calls = Append(@,
                      [PageCall("page/close", page_id, pid) EXCEPT
                          !.pc = "raised", !.raised = "PageNotFound"])]
             ELSE PagesAfterRequest(pages, PageCall("page/close", page_id, pid))
    /\ PageRest

\* transport.send returns: the call goes on to "await future", which
\* suspends it unless the future is done already
PageSendReturns(c) ==
    /\ pages.calls[c].pc = "sending"
    /\ pages' = IF pages.calls[c].fut = "pending"
                THEN [pages EXCEPT !.calls[c].pc = "waiting"]
                ELSE PagesAfterFuture(pages, c)
    /\ PageRest

\* transport.send raises: the except clause takes the entry out and the
\* exception reaches the caller
PageSendRaises(c) ==
    /\ pages.calls[c].pc = "sending"
    /\ pages' = [pages EXCEPT !.calls[c].pc = "raised", !.calls[c].raised = "send"]
    /\ PageRest

\* the entry of the call is in _pending_requests
PageEntry(c) ==
    pages.calls[c].pc \in {"sending", "waiting"} /\ pages.calls[c].fut = "pending"

\* _handle_response with a result for the call
PageResult(c, v) ==
    /\ PageEntry(c)
    /\ pages' = [pages EXCEPT !.calls[c].fut = "result", !.calls[c].val = v]
    /\ PageRest

\* _handle_response with an error for the call
PageError(c) ==
    /\ PageEntry(c)
    /\ pages' = [pages EXCEPT !.calls[c].fut = "error"]
    /\ PageRest

\* on_timeout of the call
PageTimeout(c) ==
    /\ PageEntry(c)
    /\ pages' = [pages EXCEPT !.calls[c].fut = "timeout"]
    /\ PageRest

\* the caller is resumed by its future
PageResume(c) ==
    /\ pages.calls[c].pc = "waiting"
    /\ pages.calls[c].fut # "pending"
    /\ pages' = PagesAfterFuture(pages, c)
    /\ PageRest

\* the task of the caller is cancelled: CancelledError is thrown into the
\* call where it is suspended, also when its future is done already
PageCancel(c) ==
    /\ pages.calls[c].pc \in {"sending", "waiting"}
    /\ pages' = [pages EXCEPT !.calls[c].pc = "raised", !.calls[c].raised = "cancelled"]
    /\ PageRest

PageNext ==
    \/ create_page
    \/ \E p \in PageIds : activate_page(p)
    \/ \E p \in ClosePageArguments : close_page(p)
    \/ \E c \in DOMAIN pages.calls : PageSendReturns(c)
    \/ \E c \in DOMAIN pages.calls : PageSendRaises(c)
    \/ \E c \in DOMAIN pages.calls : \E v \in PageResults(pages.calls[c].method) :
          PageResult(c, v)
    \/ \E c \in DOMAIN pages.calls : PageError(c)
    \/ \E c \in DOMAIN pages.calls : PageTimeout(c)
    \/ \E c \in DOMAIN pages.calls : PageResume(c)
    \/ \E c \in DOMAIN pages.calls : PageCancel(c)

PageSpec == Init /\ [][PageNext]_vars

\* ================================================================ claims
\* the future of call c holds a result or an exception
Settled(cs, c) == cs[c].fut \in {"result", "error"}
\* the future of call c is done: settled or cancelled
Done(cs, c) == cs[c].fut \in {"result", "error", "cancelled"}

\* the same outcome in two records of a call
SameOutcome(a, b) == a.fut = b.fut /\ a.val = b.val /\ a.settles = b.settles

\* record r of call c is settled at most once, and as call c is now if its
\* future is done already
KeepsOutcome(c, r) == r.settles <= 1 /\ (Done(calls, c) => SameOutcome(r, calls[c]))

\* handling frame f with the calls cs and the table p settles nothing,
\* changes neither of them and raises nothing
Discarded(cs, p, f) ==
    /\ CallsAfterResponse(cs, p, f) = cs
    /\ PendingAfterResponse(p, f) = p
    /\ ~ResponseRaises(cs, p, f)

\* C1: the future of every call is settled at most once, with a result or
\* with an error and never both; on a future that is done no handler that
\* settles futures (a response of any kind, any armed timer, the final block
\* of close()) has any effect, in every reachable interleaving; and handling
\* one more frame that carries the id of a settled call settles nothing and
\* changes no state, as does a frame with the id of a call that is over (of
\* which _handle_response reads the id only).
C1_SettledAtMostOnce ==
    \A c \in CallIds :
        /\ calls[c].settles <= 1
        /\ Settled(calls, c) => calls[c].val.kind = calls[c].fut /\ calls[c].settles = 1
        /\ ~Settled(calls, c) => calls[c].val = NoVal /\ calls[c].settles = 0
        /\ Done(calls, c) =>
              /\ \A p \in ResultPayloads(calls[c].id) :
                    KeepsOutcome(c, CallsAfterResponse(calls, pending,
                                        ResponseFrame(calls[c].id, "result", p))[c])
              /\ \A d \in ErrorData :
                    KeepsOutcome(c, CallsAfterResponse(calls, pending,
                                        ResponseFrame(calls[c].id, "error", d))[c])
              /\ \A t \in CallIds :
                    calls[t].timer = "armed" =>
                        KeepsOutcome(c, CallsAfterTimeout(calls, pending, t)[c])
              /\ KeepsOutcome(c, CallsAfterClose(calls, pending)[c])
        /\ Settled(calls, c) =>
              /\ \A p \in ResultPayloads(calls[c].id) :
                    Discarded(calls, pending, ResponseFrame(calls[c].id, "result", p))
              /\ \A d \in ErrorData :
                    Discarded(calls, pending, ResponseFrame(calls[c].id, "error", d))
        /\ calls[c].pc = "released" =>
              Discarded(calls, pending, ResponseFrame(calls[c].id, "result", "ok"))

\* a call settled by its response, not yet resumed, while the receive loop
\* can still be handed another frame with the same id
C1_Witness ==
    \E c \in CallIds :
        /\ calls[c].pc = "awaiting" /\ calls[c].fut = "result" /\ calls[c].settles = 1
        /\ calls[c].id \notin PendingIds(pending)
        /\ LoopReads

\* C2: the ids assigned to successive _request calls are 1, 2, 3, ...: the
\* n-th call of the client's life gets id n, whatever close() and connect()
\* did in between, so ids strictly increase and none is assigned twice; the
\* next id to be assigned is larger than all of them; and the pending table
\* never holds two entries for one id, each entry being that of the call
\* which was given the id.
C2_IdsIncreaseNeverReused ==
    /\ request_id = ncalls
    /\ \A c \in CallIds : IF c <= ncalls THEN calls[c].id = c ELSE calls[c] = NoCall
    /\ \A c \in CallIds : c <= ncalls => calls[c].id < NextRequestId
    /\ \A e1, e2 \in pending : e1[1] = e2[1] => e1 = e2
    /\ \A e \in pending : calls[e[2]].id = e[1]

\* a first session (initialize 1), its shutdown by close() (2), and the
\* handshake of a new connect() on the same client outstanding with id 3
C2_Witness ==
    /\ ncalls >= 3
    /\ calls[1].method = "initialize" /\ calls[2].method = "shutdown"
    /\ calls[3].method = "initialize" /\ calls[3].id = 3
    /\ <<3, 3>> \in pending

\* call c is outstanding: registered, its timer armed, its future not done
Outstanding(c) ==
    /\ <<calls[c].id, c>> \in pending
    /\ calls[c].timer = "armed"
    /\ calls[c].fut = "pending"

\* C3: when the timer of an outstanding call expires, on_timeout settles the
\* call with an error whose code is Timeout, whose retryable flag is true
\* and whose message names the called method, and removes its entry; a
\* response for that id handled afterwards is discarded: it settles
\* nothing, changes neither the calls nor the table, and raises nothing.
\* A call whose timer has fired is in exactly that condition.
C3_TimeoutSettlesAndRemoves ==
    \A c \in CallIds :
        /\ Outstanding(c) =>
              LET cs == CallsAfterTimeout(calls, pending, c)
                  p == PendingAfterTimeout(pending, calls[c].id)
              IN  /\ cs[c].fut = "error"
                  /\ cs[c].val.code = Timeout
                  /\ cs[c].val.retryable
                  /\ cs[c].val.text = "Request timeout"
                  /\ cs[c].val.arg = calls[c].method
                  /\ cs[c].timer = "fired"
                  /\ calls[c].id \notin PendingIds(p)
                  /\ \A r \in ResultPayloads(calls[c].id) :
                        Discarded(cs, p, ResponseFrame(calls[c].id, "result", r))
                  /\ \A d \in ErrorData :
                        Discarded(cs, p, ResponseFrame(calls[c].id, "error", d))
        /\ calls[c].timer = "fired" =>
              /\ calls[c].fut = "error"
              /\ calls[c].val = ErrorVal(Timeout, TRUE, "Request timeout", calls[c].method)
              /\ calls[c].id \notin PendingIds(pending)
        /\ calls[c].val.code = Timeout => calls[c].timer = "fired"

\* a call settled by its timer, its caller not yet resumed, on a channel
\* that can still deliver the late response
C3_Witness ==
    \E c \in CallIds :
        /\ calls[c].timer = "fired" /\ calls[c].pc = "awaiting"
        /\ calls[c].val = ErrorVal(Timeout, TRUE, "Request timeout", AppMethod)
        /\ LoopReads

\* the caller of call c is suspended in "await future"
Suspended(c) == calls[c].pc = "awaiting"

\* C4: when close() has returned, every call whose caller still awaits it
\* has been settled (with the non-retryable error "Client closed" unless it
\* was settled before), no timer is armed and the pending table is empty.
C4_CloseSettlesOutstanding ==
    out.closed =>
        /\ pending = {}
        /\ \A c \in CallIds :
              /\ calls[c].timer # "armed"
              /\ Suspended(c) =>
                    /\ Settled(calls, c)
                    /\ calls[c].val.text = "Client closed" => calls[c].val = ClientClosedError

\* C5: when the transport reports the end of the channel without close()
\* having been called (on_close outside a close()), every call that is still
\* registered or awaited has been settled with an error in that step, and
\* the "close" handlers have been told.
C5_ChannelLossSettlesOutstanding ==
    (out.close > 0 /\ ~is_closing) =>
        /\ \A e \in pending : calls[e[2]].fut = "error"
        /\ \A c \in CallIds : Suspended(c) => Settled(calls, c)

\* C6: every call registered in the pending table is eventually settled,
\* given that armed timers fire.
C6_PendingEventuallySettled ==
    \A c \in CallIds :
        (<<c, c>> \in pending) ~> (calls[c].fut # "pending")

\* C7: handling the response that carries the id of an outstanding call
\* (registered, not done, its caller still in _request) settles exactly
\* that call, with the result or the error of the response,
\* and leaves every other call as it was.
C7_StepSettlesItsCall ==
    \A f \in ServerFrames :
        (/\ f.id \in PendingIds(pending)
         /\ calls[DictGet(pending, f.id)].fut = "pending"
         /\ calls[DictGet(pending, f.id)].pc \in {"sending", "awaiting"}
         /\ Receive(f))
        => LET c == DictGet(pending, f.id)
           IN  /\ calls[c].id = f.id
               /\ calls'[c].fut = f.kind
               /\ f.kind = "result" => calls'[c].val = ResultVal(f.payload)
               /\ f.kind = "error" => calls'[c].val.code = ServerError
               /\ \A d \in CallIds \ {c} : calls'[d] = calls[d]

C7_ResponseSettlesItsCall == [][C7_StepSettlesItsCall]_vars

\* C8: when connect() raises after the channel was opened (every failure but
\* the refusal of the channel itself), the transport has been closed by
\* then: the socket is not open and no receive loop is running.
C8_ConnectFailureClosesTransport ==
    (out.connect = "raised" /\ out.val # Exception("connection refused")) =>
        ws # "open" /\ receive_task # "running"

\* connect() is about to be resumed with the initialize result p
HandshakeResult(p) ==
    \E c \in CallIds :
        /\ calls[c].owner = "connect" /\ calls[c].method = "initialize"
        /\ calls[c].pc = "awaiting"
        /\ calls[c].val = ResultVal(p)

\* C9: resumed with an initialize result whose major version differs from
\* the client's, connect() raises a non-retryable error and ends there: it
\* leaves _initialized and the capabilities as they were (false and none on
\* a client not connected before) and goes on neither to the initialized
\* notification nor to the subscribe call.  connect() is never at the
\* notification or at the subscribe call with such a result, no subscribe
\* call exists outside that stage, and a connect() that raised the mismatch
\* has ended.
C9_MajorMismatchAborts ==
    /\ \A p \in Payloads :
          (HandshakeResult(p) /\ ServerParts(p)[1] # ClientMajor) =>
              /\ OutAfterHandshake(p).connect = "raised"
              /\ OutAfterHandshake(p).val.kind = "error"
              /\ ~OutAfterHandshake(p).val.retryable
              /\ ConnPcAfterHandshake(p) = "idle"
              /\ InitializedAfterHandshake(p) = initialized
              /\ CapabilitiesAfterHandshake(p) = capabilities
    /\ connPc \in {"notifying", "subscribing"} => ServerParts(connPayload)[1] = ClientMajor
    /\ \A c \in CallIds :
          (calls[c].method = "events/subscribe" /\ calls[c].pc \in {"sending", "awaiting"})
          => connPc = "subscribing" /\ ServerParts(connPayload)[1] = ClientMajor
    /\ (out.connect = "raised" /\ out.val.text = "Protocol version mismatch") =>
          /\ connPc = "idle"
          /\ ~out.val.retryable
          /\ ServerParts(out.val.arg)[1] # ClientMajor

\* connect() has just raised the mismatch against a 1.0.0 server, on a
\* client that is neither initialized nor holds capabilities
C9_Witness ==
    /\ out.connect = "raised"
    /\ out.val = ErrorVal(InvalidRequest, FALSE, "Protocol version mismatch", "v1.0.0")
    /\ ~initialized /\ capabilities = "none"

\* C10: resumed with an initialize result of the client's major version and
\* a lower minor, connect() does what it does for the client's own version,
\* the logged warning apart: _initialized becomes true, the capabilities of
\* the result are recorded, and on an open socket it goes on to the
\* initialized notification, after which the subscribe call follows; the
\* result is as valid a return value as one of equal version.
C10_OlderMinorProceeds ==
    \A p \in Payloads \ {"ok"} :
        (HandshakeResult(p) /\ ServerParts(p)[1] = ClientMajor
                           /\ ServerParts(p)[2] < ClientMinor) =>
            /\ InitializedAfterHandshake(p) = TRUE
            /\ CapabilitiesAfterHandshake(p) = "caps"
            /\ ConnPcAfterHandshake(p) = ConnPcAfterHandshake("v0.2.0")
            /\ CanSend => ConnPcAfterHandshake(p) = "notifying"
            /\ OutAfterHandshake(p) = Warned(OutAfterHandshake("v0.2.0"), TRUE)
            /\ ~OutAfterHandshake("v0.2.0").warned
            /\ ValidInitializeResult(p) = ValidInitializeResult("v0.2.0")

\* connect() has returned the result of a 0.1.0 server to its caller, the
\* client initialized and holding the capabilities
C10_Witness ==
    /\ out.connect = "returned" /\ out.val = ResultVal("v0.1.0")
    /\ initialized /\ capabilities = "caps"

\* the channel of the transport is up and its receive loop is reading
ChannelUp == ws = "open" /\ receive_task = "running"

\* C11: _initialized is true exactly when a handshake has succeeded and
\* neither close() nor an end of the channel has happened since: outside a
\* close() in progress an initialized client has its channel up and is not
\* in a connect() that still waits for the initialize result, and a connect()
\* resumed with a compatible initialize result sets _initialized.
C11_ConnectedIffHandshakeAndNoClosure ==
    /\ (initialized /\ closePc = "idle") =>
          /\ ChannelUp
          /\ connPc \notin {"opening", "handshake"}
    /\ \A p \in Payloads :
          (HandshakeResult(p) /\ ~MajorMismatch(p)) => InitializedAfterHandshake(p)

\* the step starts writing the request of call c to the socket
StartsSending(c) == calls[c].pc # "sending" /\ calls'[c].pc = "sending"

\* C13: a step that starts writing a request other than initialize is taken
\* only when the handshake has succeeded: _initialized is true and no
\* connect() is opening the channel or waiting for the initialize result.
C13_StepSendsAfterHandshake ==
    \A c \in CallIds :
        (StartsSending(c) /\ calls'[c].method # "initialize") =>
            initialized /\ connPc \notin {"opening", "handshake"}

C13_NoRequestBeforeHandshake == [][C13_StepSendsAfterHandshake]_vars

\* the session is Disconnected: not initialized, no capabilities, nothing
\* pending, and the transport holds no socket, no session and no task
Disconnected ==
    /\ ~initialized /\ capabilities = "none" /\ pending = {}
    /\ ws = "none" /\ ~session /\ receive_task = "none"

\* C14: close() called on a Disconnected session returns in the same step
\* without raising, issues no request (no id is consumed, no call is made),
\* runs no handler and leaves the session state as it was; and when close()
\* has returned the session is Disconnected, so that a second close() in a
\* row is such a step.
C14_StepCloseWhenDisconnected ==
    (Disconnected /\ CloseStart) =>
        /\ out' = CloseReturned(NoOut)
        /\ UNCHANGED <<ws, session, receive_task, orphans, request_id, pending, initialized,
                       capabilities, active_page, calls, ncalls, connPc, connPayload,
                       closePc>>

C14_CloseWhenDisconnectedIsNoOp ==
    /\ [](out.closed => Disconnected)
    /\ [][C14_StepCloseWhenDisconnected]_vars

\* close() has returned on a client that never issued a request
C14_Witness == out.closed /\ ncalls = 0 /\ request_id = 0 /\ Disconnected

\* C15: a close() that has issued its shutdown request returns, whatever
\* becomes of that request (its write fails, an error response or none at
\* all arrives), and when it returns the session is Disconnected.
C15_CloseReturnsAfterShutdown ==
    (closePc = "shutdown") ~> (out.closed /\ Disconnected)

\* C16: when close() has returned, the capabilities recorded at the
\* handshake and the active page are both cleared.
C16_CloseClearsCapabilitiesAndActivePage ==
    out.closed => capabilities = "none" /\ active_page = "none"

\* C12: connect() called on a Connected session (initialized, channel up)
\* does not start opening a second channel, and a connect() that sends
\* initialize on an initialized client has left no receive loop behind.
C12_ConnectOnlyFromDisconnected ==
    /\ ~(connPc = "opening" /\ initialized /\ ChannelUp)
    /\ (connPc = "handshake" /\ initialized) => orphans = 0

\* loop l is inside the try block of _attempt_reconnect
InReconnect(l) == loops[l].pc \in {"sleeping", "connecting"}

\* C19: at most one receive loop is inside _attempt_reconnect at any time: a
\* loop that enters while another is inside returns without an attempt, and
\* _is_reconnecting is set exactly while some loop is inside, so that every
\* exit (success, exhaustion, cancellation) has released it
C19_AtMostOneReconnectLoop ==
    /\ Cardinality({l \in LoopIds : InReconnect(l)}) <= 1
    /\ is_reconnecting <=> \E l \in LoopIds : InReconnect(l)
    /\ \A l \in LoopIds : loops[l].pc = "done" /\ loops[l].reported = "-" =>
           loops[l].tries = 0 /\ loops[l].n = 0

\* a loop has returned at the guard while another one is inside
C19_Witness ==
    \E l, m \in LoopIds :
       /\ l # m /\ InReconnect(l)
       /\ loops[m].pc = "done" /\ loops[m].reported = "-"

\* C17: a receive loop whose channel ended makes at most
\* max_reconnect_attempts connect attempts; it sleeps
\* reconnect_delay * 2^(n-1) before its n-th attempt, which it announced as
\* attempt n; after max_reconnect_attempts failed attempts it makes no other
\* and has reported the failure through on_close, once
C17_BoundedAttemptsWithBackoff ==
    /\ out.close <= 1
    /\ \A l \in LoopIds :
          /\ loops[l].tries <= max_reconnect_attempts
          /\ loops[l].pc = "sleeping" =>
                /\ loops[l].n = loops[l].tries + 1
                /\ loops[l].delay = reconnect_delay * 2^(loops[l].tries)
          /\ loops[l].pc = "connecting" => loops[l].n = loops[l].tries
          /\ loops[l].tries > 0 /\ loops[l].pc = "done" /\ loops[l].reported = "close" =>
                loops[l].tries = max_reconnect_attempts
          /\ loops[l].tries = max_reconnect_attempts /\ loops[l].pc \in {"sleeping", "done"} =>
                loops[l].pc = "done" /\ loops[l].reported \in {"close", "reconnected"}

\* what one step may do to the callbacks of the reconnection of loop l
C18_StepCallbacks(l) ==
    /\ loops[l].pc # "sleeping" /\ loops'[l].pc = "sleeping" =>
          /\ loops'[l].n = loops[l].n + 1
          /\ out'.reconnecting = loops'[l].n
    /\ loops[l].pc = "sleeping" /\ loops'[l].pc = "connecting" =>
          loops[l].n = loops[l].tries + 1
    /\ loops[l].pc = "connecting" /\ loops'[l].pc = "done" =>
          \/ out'.reconnected /\ out'.close = 0 /\ loops'[l].reported = "reconnected"
          \/ /\ ~out'.reconnected /\ out'.close = 1 /\ loops'[l].reported = "close"
             /\ loops[l].tries = max_reconnect_attempts
    /\ loops[l].pc = "done" => loops'[l].pc = "done" /\ loops'[l].tries = loops[l].tries

\* C18: on_reconnecting is emitted before every connect attempt of a
\* reconnect loop, with the numbers 1, 2, ... in this order; on_reconnected
\* is emitted by the step in which an attempt succeeds, which ends the loop;
\* a reconnect loop emits on_close only after max_reconnect_attempts failed
\* attempts
C18_CallbacksInOrder ==
    [][/\ \A l \in LoopIds : C18_StepCallbacks(l)
       /\ out'.reconnected =>
             \E l \in LoopIds : loops[l].pc = "connecting" /\ loops'[l].pc = "done"]_vars

\* the transport holds no socket, no HTTP session and no receive task
Closed == ws = "none" /\ ~session /\ receive_task = "none"

\* no loop goes from its sleep to a connect attempt while close() runs, and
\* a closed transport stays closed until its owner calls connect()
C20_StepAfterClose ==
    /\ closePc # "idle" =>
          \A l \in LoopIds : ~(loops[l].pc = "sleeping" /\ loops'[l].pc = "connecting")
    /\ Closed /\ connPc' # "opening" => Closed'

\* C20: close() never leads to a reconnect: no connect attempt is started
\* once close() was called, close() returns with the transport closed, and
\* the transport stays closed afterwards
C20_CloseNeverReconnects ==
    /\ [](out.closed => Closed)
    /\ [][C20_StepAfterClose]_vars

\* the SSE transport holds no HTTP client and no task, and no task runs
SSEReleased(s) == ~s.client /\ ~s.sse_task /\ ~SSERunning(s)

\* a close() on a transport that close() has released changes nothing and
\* returns
C21_StepSecondClose ==
    sse.pc = "idle" /\ sse.is_closing /\ SSEReleased(sse)
       /\ (out'.closed \/ out'.close_raised)
    => sse' = sse /\ out'.closed

\* C21: close() is idempotent and releases every resource on every exit
\* path: when close() has returned or raised, the transport holds no task
\* and no HTTP client, and a second close() changes nothing and raises
\* nothing
C21_CloseReleasesOnEveryPath ==
    /\ []((out.closed \/ out.close_raised) => SSEReleased(sse))
    /\ [][C21_StepSecondClose]_vars

\* C22: connect() returns normally only when the channel is established
\* (the event stream is open), and a refusal is an error raised to the
\* caller of connect(), who is the only one connect() reports to
C22_ConnectReturnsOnlyWhenEstablished ==
    /\ out.connect = "returned" => sse.loop = "reading"
    /\ sse.loop = "done" /\ out.error + out.close > 0 => out.connect = "raised"

\* C23: a send() on a transport that is not connected (is_connected is
\* false, or the event stream has ended) raises and writes nothing
C23_SendFailsWhenNotConnected ==
    out.send # "-" /\ (~SSEIsConnected(sse) \/ sse.loop = "done")
    => out.send = "raised" /\ ~out.written

\* the handlers of the registry a notification with method m is routed to
RoutedHandlers(r, m) ==
    IF m \in Reserved THEN ReservedHandlers(r, m)
    ELSE IF EventType(m) \in EventNames THEN r.event_handlers[EventType(m)]
    ELSE <<>>

\* C24: a notification whose method is a reserved name (stream/chunk,
\* stream/end, approval/required) invokes handlers of the list of that
\* reserved category only, never a handler of the general event registry,
\* whatever is registered there
C24_ReservedOnlyToReservedHandlers ==
    LET l == router.last
    IN l.msg.method \in Reserved =>
          \A i \in 1..Len(l.invoked) : l.invoked[i].registry = <<"reserved", l.msg.method>>

\* a reserved notification was delivered to its own handler while a general
\* handler is registered under the same reserved name
C24_Witness ==
    LET l == router.last
    IN /\ l.msg.method \in Reserved
       /\ router.event_handlers[l.msg.method] # <<>>
       /\ Len(l.invoked) = 1

\* C25: for a notification that is routed to handlers, and for the close
\* of the channel, every handler registered for it is invoked, in order,
\* whichever of them raise, and no exception leaves the router: the
\* receive loop goes on
C25_HandlerExceptionsContained ==
    LET l == router.last
        hs == IF l.msg.form = "close" THEN router.event_handlers["close"]
              ELSE RoutedHandlers(router, l.msg.method)
    IN (l.msg.form = "close" \/ (l.msg.method # "-" /\ l.msg.id = 0 /\ l.msg.params = "ok")) =>
          /\ ~l.escaped
          /\ Len(l.invoked) = Len(hs)
          /\ \A i \in 1..Len(hs) : l.invoked[i].handler = hs[i]
          /\ l.msg.form # "close" => router.loop = "reading"

\* a handler that raises was invoked, and the one registered after it too
C25_Witness ==
    LET l == router.last
    IN /\ l.msg.method # "-" /\ Len(l.invoked) = 2
       /\ l.invoked[1].handler = "bad" /\ l.invoked[2].handler = "good"

\* the inbound texts that are protocol faults
ProtocolFault(m) ==
    \/ m.form \in {"invalid", "number", "string", "string_id", "array"}
    \/ m.form = "object" /\ m.id = 0 /\ m.method = "-"
    \/ m.form = "object" /\ m.id # 0 /\ m.body \in {"badError", "none"}
    \/ m.form = "object" /\ m.id = 0 /\ m.method \in Reserved /\ m.params = "bad"

\* C26: a protocol fault in an inbound message is dropped: it settles no
\* pending call, invokes no handler, raises nothing into the receive loop,
\* and the loop goes on reading
C26_FaultsAreDropped ==
    LET l == router.last
    IN ProtocolFault(l.msg) =>
          /\ ~l.settled /\ l.invoked = <<>> /\ ~l.escaped
          /\ router.loop = "reading"

SameTriple(a, b) ==
    a.code = b.code /\ a.retryable = b.retryable /\ a.details = b.details

\* C27: for every typed error e, BAPError.from_dict(e.to_dict()) has the
\* code, the retryable flag and the details of e
C27_RoundTripKeepsCodeRetryableDetails ==
    err.stage \in {"mapped:created", "mapped:constructed"} => SameTriple(err.back, err.e)

\* C28: for a code the mapper has no specialized error for,
\* create_error_from_code returns a BAPError of the base class whose code,
\* message, retryable flag, retry_after_ms and details are the arguments
C28_UnknownCodeKeepsArguments ==
    err.stage = "created" /\ err.i.code \notin WellKnownCodes => err.e = err.i

\* an unknown code was mapped with retryable set, a retry-after and details
C28_Witness ==
    /\ err.stage = "created" /\ err.i.code \in OtherCodes
    /\ err.i.retryable /\ err.i.retry_after_ms = 250 /\ err.i.details.items # {}

\* C29: the error the mapper builds carries the code of the wire error, and
\* its retryable flag, its retry-after and its details are those of the
\* data payload, for every code
C29_MappedErrorCarriesPayload ==
    err.stage = "created" =>
       /\ err.e.code = err.i.code
       /\ err.e.retryable = err.i.retryable
       /\ err.e.retry_after_ms = err.i.retry_after_ms
       /\ err.e.details = err.i.details

\* C30: bap_client calls client.close() on every exit path: when the block
\* is left (the body ended or raised, or connect() or launch() failed before
\* the body was entered) close() has been called, the client holds no
\* transport resource, and the caller gets the exception that was raised in
\* the block, or none if there was none.
C30_CloseOnEveryExitPath ==
    ctx.pc = "exited" =>
        /\ ctx.closes = 1
        /\ ctx.transport = "none" /\ ~ctx.initialized
        /\ ctx.raised = ctx.error

\* connect() failed before the body was entered, and the block was left
C30_Witness ==
    /\ ctx.pc = "exited" /\ ctx.failed_at = "connect" /\ ~ctx.entered
    /\ ctx.closes = 1 /\ ctx.raised = "Exception: refused"

\* C31: when the transport send of a request fails, the call's entry is
\* removed and its timer cancelled before the failure reaches the caller.
\* Wherever a request is being written, the except clause of _request leaves
\* the table without that id and with every other entry, and the timer not
\* armed; a request whose send raises at once leaves the table as it was
\* before the call; and a call that ended so has no armed timer and no
\* entry, so that no timeout fires for its id.
C31_SendFailureLeavesNoEntry ==
    /\ \A c \in CallIds :
          calls[c].pc = "sending" =>
             LET cs == CallsAfterCleanup(calls, pending, c)
                 p == PendingAfterCleanup(pending, calls[c].id)
             IN  /\ calls[c].id \notin PendingIds(p)
                 /\ p = {e \in pending : e[1] # calls[c].id}
                 /\ cs[c].timer # "armed"
                 /\ \A d \in CallIds \ {c} : cs[d] = calls[d]
    /\ ncalls < MaxCalls =>
          LET c == ncalls + 1
              id == NextRequestId
          IN  /\ PendingAfterBegin(pending, c, id, FALSE) = pending
              /\ CallsAfterBegin(calls, c, id, AppMethod, "app", FALSE)[c].timer # "armed"
    /\ \A c \in CallIds :
          calls[c].pc = "sendfailed" =>
             calls[c].timer # "armed" /\ calls[c].id \notin PendingIds(pending)

\* the first request of a client whose channel was never opened has failed
\* at the send: its coroutine has ended and nothing is left of it
C31_Witness ==
    /\ ncalls >= 1 /\ calls[1].owner = "app" /\ calls[1].pc = "released"
    /\ calls[1].id = 1 /\ pending = {} /\ ws = "none"

\* a message that has an id member which is no integer key of the table
Unmatched(r, m) ==
    m.form = "object" /\ m.id # 0 /\ ~(m.idtype = "int" /\ m.id \in r.pending)

\* C32: an inbound message whose id matches no entry of the pending table
\* (never issued, already settled, or of another type than the issued
\* integer) is discarded: handling it changes neither the table nor the
\* future nor the registries, invokes no handler, raises nothing, and the
\* receive loop goes on reading.
C32_StepUnmatched ==
    \A m \in RouterMessages :
        (Unmatched(router, m) /\ RouterReceive(m)) =>
            router' = [router EXCEPT !.last = [NoLast EXCEPT !.msg = m]]

C32_UnmatchedIdDiscarded == [][C32_StepUnmatched]_vars

\* C33: the expiry of the timeout of one call settles and removes only that
\* call: its entry is the only one that leaves the table, every other call
\* (its future, its timer, its coroutine) is as it was, and the session
\* state (initialized, capabilities, active page, the socket and the receive
\* loop) is unchanged.
C33_StepTimeout ==
    \A c \in CallIds :
        OnTimeout(c) =>
            /\ pending' = {e \in pending : e[1] # calls[c].id}
            /\ \A d \in CallIds \ {c} : calls'[d] = calls[d]
            /\ initialized' = initialized /\ capabilities' = capabilities
            /\ active_page' = active_page
            /\ ws' = ws /\ receive_task' = receive_task

C33_TimeoutSettlesOnlyItsCall == [][C33_StepTimeout]_vars

\* one call has timed out while another is still outstanding on the
\* initialized session
C33_Witness ==
    \E c, d \in CallIds :
        /\ c # d /\ initialized /\ ws = "open"
        /\ calls[c].timer = "fired" /\ calls[c].fut = "error"
        /\ calls[c].val.code = Timeout
        /\ Outstanding(d)

\* C34: every entry of the pending table has a future that is not done
C34_PendingEntriesNotDone ==
    \A e \in pending : calls[e[2]].fut = "pending"

\* C35: a timeout timer is armed for exactly the ids present in the pending
\* table: the call stored under an id has its timer armed, and a call whose
\* timer is armed has its entry; so no timer can fire for a call that was
\* settled by a response, a send failure or close().
C35_TimersArmedForPendingIds ==
    /\ \A e \in pending : calls[e[2]].timer = "armed" /\ calls[e[2]].id = e[1]
    /\ \A c \in CallIds : calls[c].timer = "armed" => <<calls[c].id, c>> \in pending

\* a response has settled one call, whose timer is cancelled and whose entry
\* is gone before its caller is resumed, while another call is outstanding
C35_Witness ==
    \E c, d \in CallIds :
        /\ c # d
        /\ calls[c].pc = "awaiting" /\ calls[c].fut = "result"
        /\ calls[c].timer = "cancelled" /\ calls[c].id \notin PendingIds(pending)
        /\ Outstanding(d)

\* the list of events the caller asked for: the argument, or the documented
\* default when the argument is left out
RequestedEvents(h) == IF h.requested.given THEN h.requested.list ELSE DefaultEvents

\* C36: when connect() has returned, the wire shows, in this order: the
\* transport opened, the initialize request, its response (validated), the
\* session marked Connected, the initialized notification, and then the
\* events/subscribe request exactly if the list of requested events is not
\* empty.
C36_HandshakeOrder ==
    handshake.pc = "returned" =>
        /\ handshake.initialized
        /\ handshake.wire = <<"opened", "initialize", "response", "connected", "initialized">>
                     \o (IF RequestedEvents(handshake) # <<>> THEN <<"subscribe">> ELSE <<>>)

\* C37: when the dispatch of a notification is over, the handlers that were
\* registered for its category when it arrived have each been invoked
\* exactly once, in registration order, whatever the handlers did to the
\* list meanwhile (a handler registered during the dispatch may or may not
\* have been invoked as well).
C37_EachRegisteredHandlerOnce ==
    dispatch.pc = "done" =>
        LET ran == SelectSeq(dispatch.invoked,
                             LAMBDA n : \E i \in 1..Len(dispatch.arrived) :
                                            dispatch.arrived[i] = n)
        IN  ran = dispatch.arrived

\* C38: close() was called while connect() was in flight, and both have
\* ended: the session is not Connected, the transport holds no socket, no
\* session and no receive task, and the pending table is empty.
C38_CloseDuringConnect ==
    (connPc = "idle" /\ closePc = "idle" /\ is_closing) =>
        /\ ~initialized
        /\ ws = "none" /\ ~session /\ receive_task = "none"
        /\ pending = {}

\* C39: every receive loop that has ended has reported exactly one outcome
\* to the owner: on_reconnected, with a new loop created and the attempt
\* counter set back to 0 (only with auto-reconnect), or on_close.
C39_StepReconnected ==
    \A l \in LoopIds :
        (loops[l].reported = "-" /\ loops'[l].reported = "reconnected") =>
            /\ auto_reconnect
            /\ reconnect_attempts' = 0
            /\ \E k \in LoopIds : loops'[k].pc = "reading" /\ loops'[k].ref

C39_OneOutcomePerTermination ==
    /\ [](\A l \in LoopIds :
             loops[l].pc \in {"done", "cancelled"} =>
                 loops[l].reported \in {"close", "reconnected"})
    /\ [][C39_StepReconnected]_vars

\* page call c returns to its caller in this step
PageCallReturns(c) ==
    pages.calls[c].pc # "returned" /\ pages'.calls[c].pc = "returned"

\* page call c is made in this step
PageCallMade(c) == c = Len(pages.calls) + 1 /\ c = Len(pages'.calls)

\* C40: the active page id changes only in a step in which a page call
\* returns to its caller: a create_page that returns leaves it at the id of
\* the new page, an activate_page(p) at p, a close_page of the page that is
\* active at None and a close_page of another page where it was; a step in
\* which a call fails with an error response, a timeout, a send failure or
\* anything else leaves it alone; and a close_page made without a page id
\* when there is no active page raises without handing a request to the
\* transport.
C40_StepActivePage ==
    /\ pages'.active # pages.active =>
          \E c \in DOMAIN pages.calls : PageCallReturns(c)
    /\ \A c \in DOMAIN pages.calls :
          PageCallReturns(c) =>
             LET call == pages'.calls[c]
             IN  /\ call.fut = "result"
                 /\ call.method = "page/create" =>
                       call.val.valid /\ pages'.active = call.val.id
                 /\ call.method = "page/activate" => pages'.active = call.arg
                 /\ call.method = "page/close" =>
                       pages'.active =
                          IF pages.active = call.pid THEN "none" ELSE pages.active
    /\ \A c \in DOMAIN pages'.calls :
          /\ PageCallMade(c)
          /\ pages'.calls[c].method = "page/close"
          /\ PageFalse(pages'.calls[c].arg)
          /\ PageFalse(pages.active)
          => /\ pages'.calls[c].pc = "raised"
             /\ pages'.sent = pages.sent
             /\ pages'.active = pages.active

C40_ActivePageChangesOnSuccess == [][C40_StepActivePage]_vars

\* a create_page has returned and made "p1" the active page, and a
\* close_page without a page id has closed that page and returned, which
\* cleared the active page
C40_Witness ==
    /\ Len(pages.calls) = MaxPageCalls
    /\ pages.calls[1].method = "page/create" /\ pages.calls[1].pc = "returned"
    /\ pages.calls[1].val.id = "p1"
    /\ pages.calls[2].method = "page/close" /\ pages.calls[2].pc = "returned"
    /\ pages.calls[2].arg = "none" /\ pages.calls[2].pid = "p1"
    /\ pages.active = "none"

====
